---- MODULE Spec2Model ----
(***************************************************************************)
(* Task-tracking REST backend (amanc1248/blysbackend): user registration   *)
(* and login with bcrypt hashing and JWT session tokens, the `protect`     *)
(* authentication middleware, and the owner-scoped task CRUD handlers.     *)
(*                                                                         *)
(* Strings that the code inspects character by character (names, emails,   *)
(* passwords) are sequences of one-character strings.  Time is counted in  *)
(* days.  A request takes one step for every statement it awaits from the  *)
(* database, together with the code that runs on the statement's answer up *)
(* to the next statement or to the response; steps of other requests, and  *)
(* of the environment, fall between the steps of one request.              *)
(***************************************************************************)
EXTENDS Integers, Sequences, FiniteSets, TLC

VARIABLES
    users,      \* rows of table `users`
    userSeq,    \* last value handed out by users.id SERIAL
    tasks,      \* rows of table `tasks`
    taskSeq,    \* last value handed out by tasks.id SERIAL
    now,        \* wall clock, in days
    issued,     \* tokens the server has signed so far (held by clients)
    regs,       \* registration requests: per process, its position and data
    req,        \* the request that took the last step
    reqUser,    \* req.user as left by `protect` for that request
    nextCalled, \* whether `protect` called next() for that request
    handled,    \* whether the controller has had an answer from the database
    resp,       \* the response to that request, Idle while there is none yet
    tz,         \* the server's local time, in hours ahead of UTC
    deleted,    \* ids of the tasks a DELETE has answered 200 for
    dbQuery,    \* the statement that step has sent: a lookup or a listing
    jwtExpire,  \* process.env.JWT_EXPIRE, in days
    loggedOut,  \* tokens a client has logged out with (logout answered 200)
    inflight,   \* requests a controller has not yet answered, per process
    migrated    \* whether the tables were created by migrations/runMigrations.js

vars == <<users, userSeq, tasks, taskSeq, now, issued, regs, req, reqUser,
          nextCalled, handled, resp, tz, deleted, dbQuery, jwtExpire,
          loggedOut, inflight, migrated>>

store == <<users, userSeq, tasks, taskSeq>>

\* How the server is set up: its time zone, JWT_EXPIRE, and its tables.
config == <<tz, jwtExpire, migrated>>

(***************************************************************************)
(* Bounds of the model.                                                    *)
(***************************************************************************)
MaxUserSeq == 2     \* inserts into `users` attempted at most
MaxTaskSeq == 2     \* inserts into `tasks` attempted at most
MaxTime == 7        \* the clock stops here
TickDays == 7       \* the clock advances in steps of this many days
NumProcs == 2       \* requests that may be in flight together

Procs == 1..NumProcs

\* The time zones the server may run in: the process's TZ, behind UTC or UTC.
UtcOffsets == {-5, 0}

\* The token lifetimes the server may be configured with: JWT_EXPIRE=1d, or
\* the default of 7 days.
JwtExpireChoices == {1, 7}

(***************************************************************************)
(* Program constants.                                                      *)
(***************************************************************************)
JwtExpireDays == 7      \* process.env.JWT_EXPIRE || '7d'
CookieDays == 7         \* 7 * 24 * 60 * 60 * 1000 ms
BcryptMaxBytes == 72    \* bcrypt reads only the first 72 bytes of the key
NameMinLen == 2
NameMaxLen == 100
PasswordMinLen == 6
PasswordMaxLen == 255
DefaultPage == 1
DefaultLimit == 10
LimitMax == 100

JwtSecret == "JWT_SECRET"

(***************************************************************************)
(* Character strings.                                                      *)
(***************************************************************************)
Min(a, b) == IF a < b THEN a ELSE b

\* The string of n copies of character c.
Repeat(c, n) == [i \in 1..n |-> c]

RECURSIVE TrimLeft(_)
TrimLeft(s) ==
    IF s # <<>> /\ Head(s) = " " THEN TrimLeft(Tail(s)) ELSE s

RECURSIVE TrimRight(_)
TrimRight(s) ==
    IF s # <<>> /\ s[Len(s)] = " " THEN TrimRight(SubSeq(s, 1, Len(s) - 1)) ELSE s

\* express-validator .trim(): whitespace removed at both ends.
Trim(s) == TrimRight(TrimLeft(s))

LowerChar(c) ==
    CASE c = "A" -> "a"
      [] c = "B" -> "b"
      [] c = "J" -> "j"
      [] OTHER -> c

ToLower(s) == [i \in 1..Len(s) |-> LowerChar(s[i])]

Positions(s, c) == {i \in 1..Len(s) : s[i] = c}

\* validator.js isEmail: one "@", a non-empty local part, and a domain made of
\* at least two non-empty labels; no blanks anywhere.
IsEmail(s) ==
    /\ Cardinality(Positions(s, "@")) = 1
    /\ Positions(s, " ") = {}
    /\ LET at == CHOOSE i \in Positions(s, "@") : TRUE
           dots == {i \in Positions(s, ".") : i > at}
       IN /\ at > 1
          /\ dots # {}
          /\ \A d \in dots : d > at + 1 /\ d < Len(s) /\ (d + 1) \notin dots

\* An address left as it was typed.
KeepEmail(s) == s

\* validator.js normalizeEmail with its defaults: the address is split at its
\* last "@" into user and domain (a string without "@" is all domain), both
\* are lower-cased and joined with "@" (the provider-specific rewrites do not
\* apply to the domains used here).
NormalizeEmail(s) ==
    LET ats == Positions(s, "@")
        last == IF ats = {} THEN 0 ELSE CHOOSE i \in ats : \A j \in ats : j <= i
        user == IF last <= 1 THEN <<>> ELSE SubSeq(s, 1, last - 1)
        domain == IF last >= Len(s) THEN <<>> ELSE SubSeq(s, last + 1, Len(s))
    IN ToLower(user) \o <<"@">> \o ToLower(domain)

(***************************************************************************)
(* bcrypt (User model hooks and comparePassword).                          *)
(***************************************************************************)
\* bcrypt.genSalt(10) returns one of these: version, cost and 16 random bytes.
Salts == {"$2b$10$salt1", "$2b$10$salt2"}

\* The key bcrypt digests: the first 72 bytes of the password.
BcryptKey(pw) == SubSeq(pw, 1, Min(Len(pw), BcryptMaxBytes))

\* bcrypt.hash(password, salt): salt ++ digest.  The digest is modelled
\* collision-free: it is the digested key itself.
BcryptHash(pw, salt) == <<salt>> \o BcryptKey(pw)

\* bcrypt.compare(entered, stored): re-hash with the stored salt and compare;
\* a stored value that is no bcrypt hash matches nothing.
BcryptCompare(entered, stored) ==
    /\ stored # <<>>
    /\ stored[1] \in Salts
    /\ BcryptHash(entered, stored[1]) = stored

\* hooks.beforeCreate: the password is replaced by its hash when it is truthy.
BeforeCreate(pw, salt) == IF pw # <<>> THEN BcryptHash(pw, salt) ELSE pw

\* User.prototype.comparePassword
ComparePassword(user, entered) == BcryptCompare(entered, user.password)

(***************************************************************************)
(* Tokens and the credentials a request carries.                           *)
(***************************************************************************)
\* A JWT: payload {id, iat, exp} and the key it was signed with.
Jwt(id, iat, exp, key) ==
    [kind |-> "jwt", text |-> "", id |-> id, iat |-> iat, exp |-> exp, sig |-> key]

\* Any other string found where a token is expected.
Raw(text) ==
    [kind |-> "raw", text |-> text, id |-> 0, iat |-> 0, exp |-> 0, sig |-> ""]

\* undefined: no cookie, or no second word in the header.
Absent == [kind |-> "absent", text |-> "", id |-> 0, iat |-> 0, exp |-> 0, sig |-> ""]

\* JavaScript truthiness of a string-or-undefined value.
Truthy(t) == t.kind = "jwt" \/ (t.kind = "raw" /\ t.text # "")

\* The Authorization header: the characters before its first blank, and what
\* split(' ')[1] gives, the word after that blank (none when there is no blank).
\* A request without the header has neither.
NoHeader == [scheme |-> <<>>, cred |-> Absent]
Header(scheme, cred) == [scheme |-> scheme, cred |-> cred]

\* The words a header may begin with.
Bearer == <<"B", "e", "a", "r", "e", "r">>
BearerX == Bearer \o <<"x">>
BearerLower == <<"b", "e", "a", "r", "e", "r">>
Basic == <<"B", "a", "s", "i", "c">>

\* String.prototype.startsWith
StartsWith(s, prefix) ==
    Len(s) >= Len(prefix) /\ SubSeq(s, 1, Len(prefix)) = prefix

\* generateToken: jwt.sign({ id }, JWT_SECRET, { expiresIn })
GenerateToken(id, t) == Jwt(id, t, t + jwtExpire, JwtSecret)

\* jwt.decode in place of jwt.verify: the payload is read, nothing is checked.
JwtDecodeOnly(token, t) ==
    IF token.kind # "jwt" THEN [ok |-> FALSE, error |-> "JsonWebTokenError", id |-> 0]
    ELSE [ok |-> TRUE, error |-> "", id |-> token.id]

\* jwt.verify(token, JWT_SECRET): the decoded payload, or the error thrown.
\* Structure is checked first, then the signature, then the expiry.
JwtVerify(token, t) ==
    IF token.kind # "jwt" THEN [ok |-> FALSE, error |-> "JsonWebTokenError", id |-> 0]
    ELSE IF token.sig # JwtSecret
         THEN [ok |-> FALSE, error |-> "JsonWebTokenError", id |-> 0]
    ELSE IF t >= token.exp
         THEN [ok |-> FALSE, error |-> "TokenExpiredError", id |-> 0]
    ELSE [ok |-> TRUE, error |-> "", id |-> token.id]

(***************************************************************************)
(* Responses.                                                              *)
(***************************************************************************)
NoSetCookie == [name |-> "", value |-> Absent, expires |-> 0]

\* res.status(s).json({ success: false, message })
Fail(status, message) ==
    [status |-> status, cookie |-> NoSetCookie,
     body |-> [success |-> FALSE, message |-> message]]

\* validate: res.status(400).json({ success, message, errors })
ValidationFailed(errors) ==
    [status |-> 400, cookie |-> NoSetCookie,
     body |-> [success |-> FALSE, message |-> "Validation failed", errors |-> errors]]

Err(field, message) == [field |-> field, message |-> message]

Idle == [status |-> 0, cookie |-> NoSetCookie, body |-> [success |-> FALSE, message |-> ""]]
NoRequest == [route |-> "none"]
NoUser == [id |-> 0]
NoQuery == [table |-> "none"]

\* sendTokenResponse
SendTokenResponse(token, statusCode, user, t) ==
    [status |-> statusCode,
     cookie |-> [name |-> "token", value |-> token, expires |-> t + CookieDays],
     body |-> [success |-> TRUE,
               message |-> IF statusCode = 201 THEN "Registration successful"
                           ELSE "Login successful",
               token |-> token,
               user |-> [id |-> user.id, name |-> user.name, email |-> user.email]]]

(***************************************************************************)
(* Request validation (utils/validation.js) for the auth routes.           *)
(***************************************************************************)
\* The errors of one chain, in the order of its validators.
Errs(checks) == SelectSeq(checks, LAMBDA c : c.field # "")
Check(failed, field, message) == IF failed THEN Err(field, message) ELSE Err("", "")

\* registerValidation: the sanitized body and the errors found.
RegisterValidation(body) ==
    LET name == Trim(body.name)
        email == Trim(body.email)
    IN [body |-> [name |-> name, email |-> NormalizeEmail(email),
                  password |-> body.password],
        errors |-> Errs(<<
            Check(name = <<>>, "name", "Name is required"),
            Check(Len(name) < NameMinLen \/ Len(name) > NameMaxLen, "name",
                  "Name must be between 2 and 100 characters"),
            Check(email = <<>>, "email", "Email is required"),
            Check(~IsEmail(email), "email", "Please provide a valid email address"),
            Check(body.password = <<>>, "password", "Password is required"),
            Check(Len(body.password) < PasswordMinLen, "password",
                  "Password must be at least 6 characters long")>>)]

\* loginValidation
LoginValidation(body) ==
    LET email == Trim(body.email)
    IN [body |-> [email |-> NormalizeEmail(email), password |-> body.password],
        errors |-> Errs(<<
            Check(email = <<>>, "email", "Email is required"),
            Check(~IsEmail(email), "email", "Please provide a valid email address"),
            Check(body.password = <<>>, "password", "Password is required")>>)]

\* The User model's own validators, run by User.create before the hook.
UserModelErrors(u) ==
    Errs(<<
        Check(u.name = <<>>, "name", "Name cannot be empty"),
        Check(Len(u.name) < NameMinLen \/ Len(u.name) > NameMaxLen, "name",
              "Name must be between 2 and 100 characters"),
        Check(~IsEmail(u.email), "email", "Must be a valid email address"),
        Check(Len(u.password) < PasswordMinLen \/ Len(u.password) > PasswordMaxLen,
              "password", "Password must be at least 6 characters")>>)

(***************************************************************************)
(* Table `users`.                                                          *)
(***************************************************************************)
\* User.findOne({ where: { email } })
FindUserByEmail(email) == {u \in users : u.email = email}

\* User.findByPk(id)
FindUserByPk(id) == {u \in users : u.id = id}

\* A table without the constraint.
UniqueViolationNone(email) == FALSE

\* The UNIQUE constraint on users.email rejects the row.
UniqueViolation(email) == \E u \in users : u.email = email

\* The row read with every attribute.
WholeRow(u) == u

\* The row as `protect` and getMe read it: attributes: { exclude: ['password'] }
ExcludePassword(u) ==
    [id |-> u.id, name |-> u.name, email |-> u.email, createdAt |-> u.createdAt]

(***************************************************************************)
(* Initial state: both tables empty, no request made yet.                  *)
(***************************************************************************)
\* No listing came before the request.
NoPage == [page |-> 0, totalPages |-> 0, ids |-> {}]

\* The process has no request in flight.  Of a request in flight: where it
\* is, the request, the id in the payload of its token and req.user (for a
\* login, the row findOne has read), the
\* day of its last step so far, what its statements have read (the Task
\* instance and its changed attributes, the count and the rows of a listing),
\* whether another PUT of the task has saved since it read it, and what its
\* client had just been answered: the page before the one it asks for, or the
\* creation of the task it asks for.
IdleTask ==
    [pc |-> "idle", req |-> NoRequest, decoded |-> 0, user |-> NoUser, at |-> 0,
     task |-> [id |-> 0], changed |-> {}, overtaken |-> FALSE,
     count |-> 0, rows |-> <<>>, after |-> NoPage, made |-> NoRequest]

\* No registration in flight.  Of one in flight: its sanitized body and the
\* day User.create was called.
IdleReg ==
    [pc |-> "idle", name |-> <<>>, email |-> <<>>, password |-> <<>>,
     at |-> 0, status |-> 0, conc |-> FALSE]

\* A finished registration: its outcome is kept while it matters to another
\* request for the same email that was in flight together with it.
DoneReg(email, status, conc) ==
    IF conc
    THEN [pc |-> "done", name |-> <<>>, email |-> email, password |-> <<>>,
          at |-> 0, status |-> status, conc |-> TRUE]
    ELSE IdleReg

Init ==
    /\ users = {}
    /\ userSeq = 0
    /\ tasks = {}
    /\ taskSeq = 0
    /\ now = 0
    /\ issued = {}
    /\ regs = [p \in Procs |-> IdleReg]
    /\ req = NoRequest
    /\ reqUser = NoUser
    /\ nextCalled = FALSE
    /\ handled = FALSE
    /\ resp = Idle
    /\ tz \in UtcOffsets
    /\ deleted = {}
    /\ dbQuery = NoQuery
    /\ jwtExpire \in JwtExpireChoices
    /\ loggedOut = {}
    /\ inflight = [p \in Procs |-> IdleTask]
    /\ migrated \in BOOLEAN

\* The same, with JWT_EXPIRE left unset and the tables of the migrations.
InitDefault == Init /\ jwtExpire = JwtExpireDays /\ migrated

\* The same, on a server whose local time is UTC.
InitUtc == InitDefault /\ tz = 0

(***************************************************************************)
(* POST /api/auth/register.                                                *)
(***************************************************************************)
\* router.post('/register', registerValidation, validate, register), up to the
\* answer of `await User.findOne` and the call of User.create that follows it:
\* the request is rejected by validation, by the existence check or by the
\* validators of the model, or goes on to the beforeCreate hook and the INSERT.
\* User.create builds the instance, createdAt included, when it is called.
RegisterCheck(p, body) ==
    /\ regs[p].pc \in {"idle", "done"}
    /\ LET v == RegisterValidation(body)
           b == v.body
           merrs == UserModelErrors(b)
           racing == {q \in Procs \ {p} :
                        regs[q].pc = "checked" /\ regs[q].email = b.email}
       IN /\ req' = [route |-> "register", proc |-> p, body |-> body]
          /\ IF v.errors # <<>>
             THEN /\ resp' = ValidationFailed(v.errors)
                  /\ regs' = [regs EXCEPT ![p] = DoneReg(b.email, 400, FALSE)]
             ELSE IF FindUserByEmail(b.email) # {}
             THEN /\ resp' = Fail(400, "Email already registered. Please login instead.")
                  /\ regs' = [regs EXCEPT ![p] = DoneReg(b.email, 400, FALSE)]
             ELSE IF merrs # <<>>
             THEN \* SequelizeValidationError
                  /\ resp' = [status |-> 400, cookie |-> NoSetCookie,
                              body |-> [success |-> FALSE, message |-> "Validation error",
                                        errors |-> merrs]]
                  /\ regs' = [regs EXCEPT ![p] = DoneReg(b.email, 400, FALSE)]
             ELSE /\ resp' = Idle
                  /\ regs' = [q \in Procs |->
                        IF q = p
                        THEN [pc |-> "checked", name |-> b.name, email |-> b.email,
                              password |-> b.password, at |-> now, status |-> 0,
                              conc |-> racing # {}]
                        ELSE IF q \in racing THEN [regs[q] EXCEPT !.conc = TRUE]
                        ELSE regs[q]]
          /\ handled' = (v.errors = <<>>)
          /\ dbQuery' = NoQuery
    /\ reqUser' = NoUser
    /\ nextCalled' = FALSE
    /\ UNCHANGED <<store, now, issued, deleted, loggedOut, inflight, config>>

\* The rest of `register`: the beforeCreate hook and the INSERT of User.create,
\* then generateToken and sendTokenResponse, or the catch block.  users.id
\* takes the next value of its sequence whether or not the row is kept.
RegisterCreate(p, salt) ==
    /\ regs[p].pc = "checked"
    /\ userSeq < MaxUserSeq
    /\ LET r == regs[p]
           row == [id |-> userSeq + 1, name |-> r.name, email |-> r.email,
                   password |-> BeforeCreate(r.password, salt), createdAt |-> r.at]
           token == GenerateToken(row.id, now)
       IN /\ req' = [route |-> "register", proc |-> p,
                     body |-> [name |-> r.name, email |-> r.email,
                               password |-> r.password]]
          /\ IF UniqueViolation(r.email)
             THEN \* SequelizeUniqueConstraintError: not the name the catch tests
                  /\ resp' = Fail(500, "Server error during registration. Please try again.")
                  /\ regs' = [regs EXCEPT ![p] = DoneReg(r.email, 500, r.conc)]
                  /\ userSeq' = userSeq + 1
                  /\ UNCHANGED <<users, issued>>
             ELSE /\ users' = users \cup {row}
                  /\ userSeq' = userSeq + 1
                  /\ issued' = issued \cup {token}
                  /\ resp' = SendTokenResponse(token, 201, row, now)
                  /\ regs' = [regs EXCEPT ![p] = DoneReg(r.email, 201, r.conc)]
    /\ reqUser' = NoUser
    /\ nextCalled' = FALSE
    /\ handled' = TRUE
    /\ dbQuery' = NoQuery
    /\ UNCHANGED <<tasks, taskSeq, now, deleted, loggedOut, inflight, config>>

(***************************************************************************)
(* POST /api/auth/login.                                                   *)
(***************************************************************************)
\* router.post('/login', loginValidation, validate, login), up to the answer
\* of `await User.findOne`: the request is rejected by validation, or for an
\* email no user has, or goes on to compare the password.
Login(p, body) ==
    /\ inflight[p].pc = "idle"
    /\ LET v == LoginValidation(body)
           found == FindUserByEmail(v.body.email)
           request == [route |-> "login", body |-> body]
       IN /\ req' = request
          /\ IF v.errors # <<>>
             THEN resp' = ValidationFailed(v.errors) /\ UNCHANGED inflight
             ELSE IF found = {}
             THEN /\ resp' = Fail(401, "Invalid credentials. Please check your email and password.")
                  /\ UNCHANGED inflight
             ELSE /\ resp' = Idle
                  /\ inflight' = [inflight EXCEPT ![p] =
                        [IdleTask EXCEPT !.pc = "found", !.req = request,
                                         !.user = CHOOSE u \in found : TRUE]]
          /\ handled' = (v.errors = <<>>)
          /\ dbQuery' = NoQuery
    /\ reqUser' = NoUser
    /\ nextCalled' = FALSE
    /\ UNCHANGED <<store, now, issued, regs, deleted, loggedOut, config>>

\* The rest of `login`: the answer of `await user.comparePassword` for the row
\* findOne has read, then generateToken and sendTokenResponse, or 401.
LoginCompare(p) ==
    /\ inflight[p].pc = "found"
    /\ inflight[p].req.route = "login"
    /\ LET user == inflight[p].user
           token == GenerateToken(user.id, now)
       IN /\ req' = inflight[p].req
          /\ IF ~ComparePassword(user,
                                 LoginValidation(inflight[p].req.body).body.password)
             THEN /\ resp' = Fail(401, "Invalid credentials. Please check your email and password.")
                  /\ UNCHANGED issued
             ELSE /\ resp' = SendTokenResponse(token, 200, user, now)
                  /\ issued' = issued \cup {token}
    /\ inflight' = [inflight EXCEPT ![p] = IdleTask]
    /\ handled' = TRUE
    /\ dbQuery' = NoQuery
    /\ reqUser' = NoUser
    /\ nextCalled' = FALSE
    /\ UNCHANGED <<store, now, regs, deleted, loggedOut, config>>

(***************************************************************************)
(* The environment: time passes; an administrator deletes a user.          *)
(***************************************************************************)
Tick ==
    /\ now + TickDays <= MaxTime
    /\ now' = now + TickDays
    /\ req' = NoRequest
    /\ reqUser' = NoUser
    /\ nextCalled' = FALSE
    /\ handled' = FALSE
    /\ dbQuery' = NoQuery
    /\ resp' = Idle
    /\ UNCHANGED <<store, issued, regs, deleted, loggedOut, inflight, config>>

\* DELETE FROM users WHERE id = ...; tasks.user_id is ON DELETE CASCADE.
AdminDeleteUser(u) ==
    /\ u \in users
    /\ users' = users \ {u}
    /\ tasks' = {t \in tasks : t.userId # u.id}
    /\ regs' = [p \in Procs |->
                  IF regs[p].email = u.email THEN [regs[p] EXCEPT !.conc = FALSE]
                  ELSE regs[p]]
    /\ req' = NoRequest
    /\ reqUser' = NoUser
    /\ nextCalled' = FALSE
    /\ handled' = FALSE
    /\ dbQuery' = NoQuery
    /\ resp' = Idle
    /\ UNCHANGED <<userSeq, taskSeq, now, issued, deleted, loggedOut, inflight,
                   config>>

(***************************************************************************)
(* The Auth Gate: middleware/authMiddleware.js `protect`.                   *)
(***************************************************************************)
\* A gate that goes on to the header when the cookie does not hold a JWT.
ProtectTokenFallback(cookie, header) ==
    IF cookie.kind = "jwt" THEN cookie
    ELSE IF StartsWith(header.scheme, Bearer) THEN header.cred
    ELSE Absent

\* A gate that prefers the header.
ProtectTokenHeaderFirst(cookie, header) ==
    IF StartsWith(header.scheme, Bearer) /\ Truthy(header.cred) THEN header.cred
    ELSE IF Truthy(cookie) THEN cookie
    ELSE Absent

\* The token `protect` goes on with: the cookie when it is truthy, else the
\* second word of an Authorization header that starts with 'Bearer', whatever
\* follows these six characters in its first word.
ProtectToken(cookie, header) ==
    IF Truthy(cookie) THEN cookie
    ELSE IF StartsWith(header.scheme, Bearer) THEN header.cred
    ELSE Absent

\* protect answers 401 and does not go on.
Rejected(message) == [ok |-> FALSE, id |-> 0, resp |-> Fail(401, message)]

\* A gate that takes the identity from the token's payload.
LookupPayload(id) ==
    {[id |-> id, name |-> <<>>, email |-> <<>>, password |-> <<>>, createdAt |-> 0]}

\* User.findByPk(decoded.id, ...): the row the token is bound to, if any.
Lookup(id) == FindUserByPk(id)

\* A gate that keeps a list of the tokens logged out with and turns them away.
ProtectVerifyRevoking(cookie, header) ==
    LET token == ProtectToken(cookie, header)
        decoded == JwtVerify(token, now)
    IN IF ~Truthy(token)
       THEN Rejected("Not authorized to access this route. Please login.")
       ELSE IF token \in loggedOut \/ ~decoded.ok
       THEN IF decoded.error = "TokenExpiredError"
            THEN Rejected("Token has expired. Please login again.")
            ELSE Rejected("Invalid token. Please login again.")
       ELSE [ok |-> TRUE, id |-> decoded.id, resp |-> Idle]

\* protect(req, res, next) when the request arrives, up to `await
\* User.findByPk`: the token is taken from the request and jwt.verify checks
\* it against the clock of that moment.  Either a 401, or the id of the
\* payload to look up.
ProtectVerify(cookie, header) ==
    LET token == ProtectToken(cookie, header)
        decoded == JwtVerify(token, now)
    IN IF ~Truthy(token)
       THEN Rejected("Not authorized to access this route. Please login.")
       ELSE IF ~decoded.ok
       THEN IF decoded.error = "TokenExpiredError"
            THEN Rejected("Token has expired. Please login again.")
            ELSE Rejected("Invalid token. Please login again.")
       ELSE [ok |-> TRUE, id |-> decoded.id, resp |-> Idle]

\* The rest of protect, on the answer of `await User.findByPk`: whether
\* next() is called, req.user, and the 401.
ProtectLookup(id) ==
    LET found == Lookup(id)
    IN IF found = {}
       THEN [next |-> FALSE, user |-> NoUser,
             resp |-> Fail(401, "User not found. Token is invalid.")]
       ELSE [next |-> TRUE,
             user |-> ExcludePassword(CHOOSE u \in found : TRUE),
             resp |-> Idle]

\* getMe: User.findByPk(req.user.id), then the fields of the answer; reading
\* a field of null throws and the catch block answers 500.
GetMeResponse(id) ==
    LET found == FindUserByPk(id)
        user == ExcludePassword(CHOOSE u \in found : TRUE)
    IN IF found = {} THEN Fail(500, "Server error. Could not fetch user data.")
       ELSE [status |-> 200, cookie |-> NoSetCookie,
             body |-> [success |-> TRUE,
                       user |-> [id |-> user.id, name |-> user.name,
                                 email |-> user.email, createdAt |-> user.createdAt]]]

(***************************************************************************)
(* Task requests: bodies, query strings and their validation.              *)
(***************************************************************************)
\* A field the JSON body does not have (a value no character string equals).
Undefined == <<"undefined">>
\* SQL NULL in a text column.
Null == <<"NULL">>
\* A missing enumerated or numeric value (priority, endDate, query parameter).
Missing == "undefined"

Priorities == {"low", "medium", "high"}

\* Calendar dates, as days since 1970-01-01.
DayOf == ("2024-12-31" :> 20088) @@ ("2025-01-01" :> 20089)
         @@ ("2025-12-30" :> 20452) @@ ("2025-12-31" :> 20453)

\* The dates requests carry.
RequestDates == {"2025-01-01", "2025-12-31"}

\* validator.js isISO8601
IsISO8601(s) == s \in RequestDates

\* .toDate(): new Date(s), the instant at 00:00 UTC of a date without a time
\* of day, in hours since the epoch.
ToDate(s) == DayOf[s] * 24

\* A DATEONLY attribute set to a Date keeps moment(value).format('YYYY-MM-DD'):
\* the calendar date of the instant in a zone `offset` hours ahead of UTC.
DateOnly(instant, offset) ==
    CHOOSE s \in DOMAIN DayOf : DayOf[s] = (instant + offset) \div 24

\* Decimal numerals, as validator.js isInt and toInt read them.
IntOf == ("-1" :> -1) @@ ("0" :> 0) @@ ("1" :> 1) @@ ("2" :> 2) @@ ("3" :> 3)
         @@ ("100" :> 100) @@ ("101" :> 101)
IsInt(s) == s \in DOMAIN IntOf

\* taskValidation: the sanitized body and the errors found.
TaskValidation(body) ==
    LET title == IF body.title = Undefined THEN <<>> ELSE Trim(body.title)
        description == IF body.description = Undefined THEN Undefined
                       ELSE Trim(body.description)
        dateOk == body.endDate \notin {Missing, ""} /\ IsISO8601(body.endDate)
    IN [body |-> [title |-> title, description |-> description,
                  priority |-> body.priority,
                  endDate |-> body.endDate,
                  date |-> IF dateOk THEN ToDate(body.endDate) ELSE 0],
        errors |-> Errs(<<
            Check(title = <<>>, "title", "Title is required"),
            Check(Len(title) > 255, "title", "Title cannot exceed 255 characters"),
            Check(body.priority \in {Missing, ""}, "priority", "Priority is required"),
            Check(body.priority \notin Priorities, "priority",
                  "Priority must be low, medium, or high"),
            Check(body.endDate \in {Missing, ""}, "endDate", "End date is required"),
            Check(~dateOk, "endDate", "End date must be a valid date (YYYY-MM-DD)")>>)]

SortKeys == {"end_date", "priority", "created_at"}
Orders == {"asc", "desc"}

\* Rules that ask for integers without a range: isInt().
PaginationErrorsNoRange(q) ==
    Errs(<<
        Check(q.page # Missing /\ ~IsInt(q.page), "page",
              "Page must be a positive integer"),
        Check(q.limit # Missing /\ ~IsInt(q.limit), "limit",
              "Limit must be between 1 and 100"),
        Check(q.sortBy # Missing /\ q.sortBy \notin SortKeys, "sortBy",
              "SortBy must be end_date, priority, or created_at"),
        Check(q.order # Missing /\ q.order \notin Orders, "order",
              "Order must be asc or desc")>>)

\* paginationValidation: every parameter is optional.
PaginationErrors(q) ==
    Errs(<<
        Check(q.page # Missing /\ ~(IsInt(q.page) /\ IntOf[q.page] >= 1), "page",
              "Page must be a positive integer"),
        Check(q.limit # Missing
                  /\ ~(IsInt(q.limit) /\ IntOf[q.limit] >= 1 /\ IntOf[q.limit] <= LimitMax),
              "limit", "Limit must be between 1 and 100"),
        Check(q.sortBy # Missing /\ q.sortBy \notin SortKeys, "sortBy",
              "SortBy must be end_date, priority, or created_at"),
        Check(q.order # Missing /\ q.order \notin Orders, "order",
              "Order must be asc or desc")>>)

\* parseInt(x) || dflt
ParseIntOr(s, dflt) ==
    IF IsInt(s) /\ IntOf[s] # 0 THEN IntOf[s] ELSE dflt

(***************************************************************************)
(* Table `tasks` and the task handlers (controllers/taskController.js).    *)
(***************************************************************************)
\* A lookup by id alone.
FindTaskById(id, userId) == {t \in tasks : t.id = id}

\* Task.findOne({ where: { id, userId } })
FindTask(id, userId) == {t \in tasks : t.id = id /\ t.userId = userId}

\* A listing query without its where clause.
OwnedByAnyone(userId) == tasks

\* The rows the listing query selects: where: { userId }
OwnedBy(userId) == {t \in tasks : t.userId = userId}

\* ORDER BY priority: the column's text, compared alphabetically.
PriorityAlphabetical(p) ==
    CASE p = "high" -> 1
      [] p = "low" -> 2
      [] p = "medium" -> 3
      [] OTHER -> 4

\* The CASE expression of the priority ordering; no branch matches otherwise
\* and the NULL it yields sorts after every number.
PriorityRank(p) ==
    CASE p = "high" -> 1
      [] p = "medium" -> 2
      [] p = "low" -> 3
      [] OTHER -> 4

\* An order clause that falls back to the creation time.
SortColumnCreatedAt(sortBy) ==
    IF sortBy = "priority" THEN "CASE priority" ELSE "createdAt"

\* getTasks: what the order clause sorts on: the CASE expression for
\* 'priority', else sortMapping[sortBy] || 'endDate'.
SortColumn(sortBy) ==
    IF sortBy = "priority" THEN "CASE priority"
    ELSE IF sortBy = "end_date" THEN "endDate"
    ELSE IF sortBy = "created_at" THEN "createdAt"
    ELSE "endDate"

\* The value the ORDER BY clause compares.
OrderKey(t, sortBy) ==
    IF SortColumn(sortBy) = "CASE priority" THEN PriorityRank(t.priority)
    ELSE IF SortColumn(sortBy) = "createdAt" THEN t.createdAt
    ELSE DayOf[t.endDate]

\* Every order the database may return rows in: sorted on the key, rows with
\* equal keys in any order.
Orderings(rows, sortBy, order) ==
    LET n == Cardinality(rows)
    IN {s \in [1..n -> rows] :
          /\ \A i, j \in 1..n : i # j => s[i] # s[j]
          /\ \A i, j \in 1..n : i < j =>
                IF order = "desc"
                THEN OrderKey(s[i], sortBy) >= OrderKey(s[j], sortBy)
                ELSE OrderKey(s[i], sortBy) <= OrderKey(s[j], sortBy)}

\* LIMIT limit OFFSET offset
Window(s, limit, offset) == SubSeq(s, offset + 1, Min(Len(s), offset + limit))

\* attributes: [...] of the listing: the row without its user_id
Listed(t) ==
    [id |-> t.id, title |-> t.title, description |-> t.description,
     priority |-> t.priority, endDate |-> t.endDate, createdAt |-> t.createdAt,
     updatedAt |-> t.updatedAt]

\* A listing that skips the page asked for: offset = page * limit.
ListArgsSkipping(q) ==
    LET page == ParseIntOr(q.page, DefaultPage)
        limit == ParseIntOr(q.limit, DefaultLimit)
    IN [page |-> page, limit |-> limit, offset |-> page * limit]

\* getTasks: page, limit and offset.
ListArgs(q) ==
    LET page == ParseIntOr(q.page, DefaultPage)
        limit == ParseIntOr(q.limit, DefaultLimit)
    IN [page |-> page, limit |-> limit, offset |-> (page - 1) * limit]

\* getTasks: the response, from the count and the rows its two statements
\* have read.
GetTasksResponse(q, count, rows) ==
    LET page == ListArgs(q).page
        limit == ListArgs(q).limit
        totalPages == (count + limit - 1) \div limit
    IN [status |-> 200, cookie |-> NoSetCookie,
        body |-> [success |-> TRUE,
                  count |-> Len(rows),
                  pagination |-> [currentPage |-> page, totalPages |-> totalPages,
                                  totalTasks |-> count, limit |-> limit,
                                  hasNext |-> page < totalPages, hasPrev |-> page > 1],
                  tasks |-> [i \in 1..Len(rows) |-> Listed(rows[i])]]]

\* The 404 of getTask, updateTask and deleteTask.
NotFoundMessage(route) ==
    CASE route = "getTask" ->
             "Task not found or you do not have permission to view it."
      [] route = "updateTask" ->
             "Task not found or you do not have permission to update it."
      [] route = "deleteTask" ->
             "Task not found or you do not have permission to delete it."

\* An answer that tells a task of another user (403) from a missing one (404).
TaskNotFoundForbidden(route, id) ==
    Fail(IF \E t \in tasks : t.id = id THEN 403 ELSE 404, NotFoundMessage(route))

\* if (!task) return res.status(404).json(...)
TaskNotFound(route, id) == Fail(404, NotFoundMessage(route))

\* task.toJSON() of an instance with all its attributes.  Next to createdAt
\* and updatedAt, which the model declares on the columns created_at and
\* updated_at, the model has the timestamp attributes its options name
\* created_at and updated_at, on the same two columns: save() stamps these.
TaskJson(inst, stamp) ==
    inst @@ [created_at |-> inst.createdAt, updated_at |-> stamp]

\* getTask
GetTaskResponse(userId, id) ==
    LET found == FindTask(id, userId)
        task == CHOOSE t \in found : TRUE
    IN IF found = {}
       THEN TaskNotFound("getTask", id)
       ELSE [status |-> 200, cookie |-> NoSetCookie,
             body |-> [success |-> TRUE, task |-> TaskJson(task, task.updatedAt)]]

\* An update that resets the creation time as well.
AssignedResettingCreatedAt(task, b) ==
    [task EXCEPT !.title = IF b.title \notin {Undefined, <<>>} THEN b.title ELSE @,
                 !.priority = IF b.priority \notin {Missing, ""} THEN b.priority ELSE @,
                 !.createdAt = 0]

\* updateTask: the instance after the four assignments that come before
\* task.save().
Assigned(task, b) ==
    [task EXCEPT
       !.title = IF b.title \notin {Undefined, <<>>} THEN b.title ELSE @,
       !.description = IF b.description # Undefined THEN b.description ELSE @,
       !.priority = IF b.priority \notin {Missing, ""} THEN b.priority ELSE @,
       !.endDate = IF b.endDate \notin {Missing, ""}
                   THEN DateOnly(b.date, tz) ELSE @]

\* The attributes save() writes: those that differ between the instance read
\* and the instance after the assignments, and with them, whenever there is
\* one, the column updated_at, under "updatedAt" as the rows have it.
Changed(old, new) ==
    LET fields == {f \in DOMAIN old : new[f] # old[f]}
    IN IF fields = {} THEN {} ELSE fields \cup {"updatedAt"}

\* A save that inserts the instance when its row is gone.
UpsertRow(rows, inst, changed) ==
    {t \in rows : t.id # inst.id} \cup {inst}

\* task.save() of an instance that was read from the table: UPDATE tasks SET
\* <the changed attributes> WHERE id = <the instance's id>.  A row that is no
\* longer there is not updated, and nothing is reported.
UpdateRow(rows, inst, changed) ==
    {IF t.id = inst.id
     THEN [f \in DOMAIN t |-> IF f \in changed THEN inst[f] ELSE t[f]]
     ELSE t : t \in rows}

\* A destroy that leaves the row in the table.
DestroyRowKeeps(rows, inst) == rows

\* task.destroy(): DELETE FROM tasks WHERE id = <the instance's id>
DestroyRow(rows, inst) == {t \in rows : t.id # inst.id}

\* The value the row's updated_at takes in an UPDATE that sets it to `sent`:
\* the trigger update_tasks_updated_at of the migration overwrites it with
\* CURRENT_TIMESTAMP; a table made by sequelize.sync() has no trigger.
UpdatedAtStored(sent, t) == IF migrated THEN t ELSE sent

(***************************************************************************)
(* The protected routes, from the request to the controller.               *)
(***************************************************************************)
\* A route that validates the request before it authenticates it.
AnsweredByValidateFirst(passed, errors) ==
    IF errors # <<>> THEN "validate"
    ELSE IF ~passed THEN "protect"
    ELSE "controller"

\* The middleware that answers a request on a route declared as
\* (protect, <rules>, validate, <controller>): each one runs only when the one
\* before it has called next().
AnsweredBy(passed, errors) ==
    IF ~passed THEN "protect"
    ELSE IF errors # <<>> THEN "validate"
    ELSE "controller"

\* What `validate` finds for the rules of the request's route.
RouteErrors(request) ==
    CASE request.route \in {"createTask", "updateTask"} ->
             TaskValidation(request.body).errors
      [] request.route = "getTasks" -> PaginationErrors(request.query)
      [] OTHER -> <<>>

\* The page a listing request asks for.
PageOf(q) == ListArgs(q).page

\* The page the client had been answered when it sent the request: the page
\* before the one it asks for now, of the same listing.
PageBefore(request, id) ==
    IF /\ request.route = "getTasks"
       /\ req.route = "getTasks"
       /\ resp.status = 200
       /\ reqUser.id = id
       /\ req.query.limit = request.query.limit
       /\ req.query.sortBy = request.query.sortBy
       /\ req.query.order = request.query.order
       /\ PageOf(request.query) = resp.body.pagination.currentPage + 1
    THEN [page |-> resp.body.pagination.currentPage,
          totalPages |-> resp.body.pagination.totalPages,
          ids |-> {resp.body.tasks[i].id : i \in DOMAIN resp.body.tasks}]
    ELSE NoPage

\* The creation the client had been answered when it sent the request: the
\* POST that returned the id it now asks for.
CreatedBefore(request, id) ==
    IF /\ request.route = "getTask"
       /\ req.route = "createTask"
       /\ resp.status = 201
       /\ reqUser.id = id
       /\ request.id = resp.body.task.id
    THEN req
    ELSE NoRequest

\* The lookup of protect.
UserQuery(id) == [table |-> "users", id |-> id]

\* A request for a protected route arrives: protect up to `await
\* User.findByPk`.  The request is answered 401 at once, or waits for the
\* user its token is bound to.
Route(p, request) ==
    /\ inflight[p].pc = "idle"
    /\ LET g == ProtectVerify(request.cookie, request.header)
       IN /\ req' = request
          /\ resp' = g.resp
          /\ inflight' =
                IF g.ok
                THEN [inflight EXCEPT ![p] =
                        [IdleTask EXCEPT !.pc = "verified", !.req = request,
                                         !.decoded = g.id, !.at = now,
                                         !.after = PageBefore(request, g.id),
                                         !.made = CreatedBefore(request, g.id)]]
                ELSE inflight
    /\ reqUser' = NoUser
    /\ nextCalled' = FALSE
    /\ handled' = FALSE
    /\ dbQuery' = NoQuery
    /\ UNCHANGED <<store, now, issued, regs, deleted, loggedOut, config>>

\* res.status(200).json of logout, which overwrites the cookie with 'none';
\* it expires 10 seconds later (less than a day: the same day).
LogoutResponse ==
    [status |-> 200,
     cookie |-> [name |-> "token", value |-> Raw("none"), expires |-> now],
     body |-> [success |-> TRUE, message |-> "Logout successful"]]

\* The answer of protect's `await User.findByPk`, and what follows it without
\* another statement: the 401 of protect; or next(), the route's rules and
\* `validate` with its 400; or the controller, which is called and awaits its
\* first statement, or, being logout, awaits nothing and answers.
ProtectAnswer(p) ==
    /\ inflight[p].pc = "verified"
    /\ LET request == inflight[p].req
           g == ProtectLookup(inflight[p].decoded)
           errors == RouteErrors(request)
           by == AnsweredBy(g.next, errors)
       IN /\ req' = request
          /\ reqUser' = g.user
          /\ nextCalled' = g.next
          /\ handled' = (by = "controller" /\ request.route = "logout")
          /\ resp' = IF by = "protect" THEN g.resp
                     ELSE IF by = "validate" THEN ValidationFailed(errors)
                     ELSE IF request.route = "logout" THEN LogoutResponse
                     ELSE Idle
          /\ inflight' =
                IF by = "controller" /\ request.route # "logout"
                THEN [inflight EXCEPT ![p].pc = "authed", ![p].user = g.user,
                                      ![p].at = now]
                ELSE [inflight EXCEPT ![p] = IdleTask]
          /\ dbQuery' = UserQuery(inflight[p].decoded)
    /\ UNCHANGED <<store, now, issued, regs, deleted, config>>

\* The same, on a server whose clients keep no record of their logouts.
Gate(p) == ProtectAnswer(p) /\ UNCHANGED loggedOut

\* The same, where the client that sent a logout remembers the token it has
\* logged out with.
ClientGate(p) ==
    /\ ProtectAnswer(p)
    /\ loggedOut' = IF req'.route = "logout" /\ resp'.status = 200
                    THEN loggedOut \cup {ProtectToken(req'.cookie, req'.header)}
                    ELSE loggedOut

\* router.post('/logout', protect, logout)
Logout(p, cookie, header) ==
    Route(p, [route |-> "logout", cookie |-> cookie, header |-> header])

\* The controller of the request of process p is at the statement `pc` stands
\* before.
At(p, route, pcs) == inflight[p].req.route = route /\ inflight[p].pc \in pcs

\* The step is one of the controller of the request of process p: the answer
\* of a statement it awaited has come.
Stepped(p) == inflight[p].pc # "idle" /\ inflight'[p].pc # inflight[p].pc

\* What every step of a controller leaves of the request it works on.
Controller(p) ==
    /\ req' = inflight[p].req
    /\ reqUser' = inflight[p].user
    /\ nextCalled' = TRUE
    /\ handled' = TRUE

\* router.get('/me', protect, getMe)
GetMeRoute(p, cookie, header) ==
    Route(p, [route |-> "getMe", cookie |-> cookie, header |-> header])

\* getMe: `await User.findByPk(req.user.id)` and the answer.
GetMe(p) ==
    /\ At(p, "getMe", {"authed"})
    /\ Controller(p)
    /\ resp' = GetMeResponse(inflight[p].user.id)
    /\ inflight' = [inflight EXCEPT ![p] = IdleTask]
    /\ dbQuery' = NoQuery
    /\ UNCHANGED <<store, now, issued, regs, deleted, loggedOut, config>>

\* The creations that have arrived and whose INSERT may still come.
Creating == {q \in Procs : At(q, "createTask", {"verified", "authed"})}

\* router.post('/', protect, taskValidation, validate, createTask).  The code
\* takes any number of creations; the last conjunct is the bound MaxTaskSeq on
\* the sequence of tasks.id, which admits a creation only while an id is left
\* for it.
CreateTaskRoute(p, cookie, header, body) ==
    /\ Route(p, [route |-> "createTask", cookie |-> cookie, header |-> header,
                 body |-> body])
    /\ inflight'[p].pc = "verified" => taskSeq + Cardinality(Creating) < MaxTaskSeq

\* createTask: `await Task.create(...)` and the answer.  Task.create builds the
\* instance, timestamps included, when it is called: in the turn in which
\* the gate's statement was answered.  tasks.id takes the next value of its
\* sequence whether or not the row is kept.
CreateTask(p) ==
    /\ At(p, "createTask", {"authed"})
    /\ Controller(p)
    /\ LET r == inflight[p]
           at == r.at
           b == TaskValidation(r.req.body).body
           row == [id |-> taskSeq + 1, userId |-> r.user.id, title |-> b.title,
                      description |-> IF b.description = Undefined THEN Null
                                      ELSE b.description,
                      priority |-> b.priority, endDate |-> DateOnly(b.date, tz),
                      createdAt |-> at, updatedAt |-> at]
          IN IF FindUserByPk(r.user.id) = {}
             THEN \* the foreign key tasks.user_id rejects the row
                  /\ resp' = Fail(500, "Server error. Could not create task.")
                  /\ UNCHANGED tasks
             ELSE /\ tasks' = tasks \cup {row}
                  /\ resp' = [status |-> 201, cookie |-> NoSetCookie,
                              body |-> [success |-> TRUE,
                                        message |-> "Task created successfully",
                                        task |-> TaskJson(row, at)]]
    /\ taskSeq' = taskSeq + 1
    /\ inflight' = [inflight EXCEPT ![p] = IdleTask]
    /\ dbQuery' = NoQuery
    /\ UNCHANGED <<users, userSeq, now, issued, regs, deleted, loggedOut, config>>

\* router.get('/', protect, paginationValidation, validate, getTasks)
GetTasksRoute(p, cookie, header, q) ==
    Route(p, [route |-> "getTasks", cookie |-> cookie, header |-> header,
              query |-> q])

\* The options getTasks hands to Task.findAndCountAll.
ListQuery(userId, q) ==
    [table |-> "tasks", userId |-> userId,
     limit |-> ListArgs(q).limit, offset |-> ListArgs(q).offset,
     column |-> SortColumn(IF q.sortBy \in {Missing, ""} THEN "end_date"
                           ELSE q.sortBy),
     order |-> IF q.order \in {Missing, ""} THEN "asc" ELSE q.order]

\* What Task.findAndCountAll resolves to, from the answers of its two
\* statements: the rows are dropped when the count is 0.
FindAndCountAll(count, rows) ==
    [count |-> count, rows |-> IF count = 0 THEN <<>> ELSE rows]

\* getTasks, the SELECT count(*) of Task.findAndCountAll, which sends it and
\* the SELECT of the rows as two statements, in no transaction: the one that
\* is answered second completes the response.
GetTasksCount(p) ==
    /\ At(p, "getTasks", {"authed", "selected"})
    /\ Controller(p)
    /\ LET r == inflight[p]
           count == Cardinality(OwnedBy(r.user.id))
       IN /\ dbQuery' = ListQuery(r.user.id, r.req.query)
          /\ IF r.pc = "authed"
             THEN /\ resp' = Idle
                  /\ inflight' = [inflight EXCEPT ![p].pc = "counted",
                                                  ![p].count = count]
             ELSE /\ resp' = GetTasksResponse(r.req.query, count,
                                               FindAndCountAll(count, r.rows).rows)
                  /\ inflight' = [inflight EXCEPT ![p] = IdleTask]
    /\ UNCHANGED <<store, now, issued, regs, deleted, loggedOut, config>>

\* getTasks, the SELECT ... ORDER BY ... LIMIT ... OFFSET of
\* Task.findAndCountAll.
GetTasksRows(p) ==
    /\ At(p, "getTasks", {"authed", "counted"})
    /\ Controller(p)
    /\ LET r == inflight[p]
           query == ListQuery(r.user.id, r.req.query)
           sortBy == IF r.req.query.sortBy \in {Missing, ""} THEN "end_date"
                     ELSE r.req.query.sortBy
       IN /\ dbQuery' = query
          /\ \E sorted \in Orderings(OwnedBy(r.user.id), sortBy, query.order) :
                LET rows == Window(sorted, query.limit, query.offset)
                IN IF r.pc = "authed"
                   THEN /\ resp' = Idle
                        /\ inflight' = [inflight EXCEPT ![p].pc = "selected",
                                                        ![p].rows = rows]
                   ELSE /\ resp' = GetTasksResponse(r.req.query, r.count,
                                                     FindAndCountAll(r.count, rows).rows)
                        /\ inflight' = [inflight EXCEPT ![p] = IdleTask]
    /\ UNCHANGED <<store, now, issued, regs, deleted, loggedOut, config>>

\* router.get('/:id', protect, getTask)
GetTaskRoute(p, cookie, header, id) ==
    Route(p, [route |-> "getTask", cookie |-> cookie, header |-> header,
              id |-> id])

\* getTask: `await Task.findOne(...)` and the answer.
GetTask(p) ==
    /\ At(p, "getTask", {"authed"})
    /\ Controller(p)
    /\ resp' = GetTaskResponse(inflight[p].user.id, inflight[p].req.id)
    /\ inflight' = [inflight EXCEPT ![p] = IdleTask]
    /\ dbQuery' = NoQuery
    /\ UNCHANGED <<store, now, issued, regs, deleted, loggedOut, config>>

\* router.put('/:id', protect, taskValidation, validate, updateTask)
UpdateTaskRoute(p, cookie, header, id, body) ==
    Route(p, [route |-> "updateTask", cookie |-> cookie, header |-> header,
              id |-> id, body |-> body])

\* res.status(200).json({ success, message, task }) of updateTask
Updated(task) ==
    [status |-> 200, cookie |-> NoSetCookie,
     body |-> [success |-> TRUE, message |-> "Task updated successfully",
               task |-> task]]

\* updateTask up to the answer of `await Task.findOne`, the assignments that
\* follow it and the call of task.save(), which reads the clock for the
\* timestamp updated_at: 404; or 200 at once when the assignments change
\* nothing, for save() then stamps nothing and sends no statement; or on its
\* way to the UPDATE.
UpdateTaskFind(p) ==
    /\ At(p, "updateTask", {"authed"})
    /\ Controller(p)
    /\ LET r == inflight[p]
           found == FindTask(r.req.id, r.user.id)
           old == CHOOSE t \in found : TRUE
           new == Assigned(old, TaskValidation(r.req.body).body)
       IN IF found = {}
          THEN /\ resp' = TaskNotFound("updateTask", r.req.id)
               /\ inflight' = [inflight EXCEPT ![p] = IdleTask]
          ELSE IF Changed(old, new) = {}
          THEN /\ resp' = Updated(TaskJson(old, old.updatedAt))
               /\ inflight' = [inflight EXCEPT ![p] = IdleTask]
          ELSE /\ resp' = Idle
               /\ inflight' = [inflight EXCEPT ![p].pc = "found",
                                               ![p].at = now,
                                               ![p].task = new,
                                               ![p].changed = Changed(old, new)]
    /\ dbQuery' = NoQuery
    /\ UNCHANGED <<store, now, issued, regs, deleted, loggedOut, config>>

\* The rest of updateTask: the UPDATE of task.save() and the answer, which
\* shows the instance: its updatedAt is still the one findOne read, and
\* updated_at the time save() was called, which is also what the UPDATE sets
\* the column to.  The other PUTs of the same task that have read it and not
\* yet saved are overtaken by this save.
UpdateTaskSave(p) ==
    /\ At(p, "updateTask", {"found"})
    /\ Controller(p)
    /\ LET r == inflight[p]
           sent == [r.task EXCEPT !.updatedAt = UpdatedAtStored(r.at, now)]
       IN /\ tasks' = UpdateRow(tasks, sent, r.changed)
          /\ resp' = Updated(TaskJson(r.task, r.at))
          /\ inflight' = [q \in Procs |->
                IF q = p THEN IdleTask
                ELSE IF /\ At(q, "updateTask", {"found"})
                        /\ inflight[q].task.id = r.task.id
                THEN [inflight[q] EXCEPT !.overtaken = TRUE]
                ELSE inflight[q]]
    /\ dbQuery' = NoQuery
    /\ UNCHANGED <<users, userSeq, taskSeq, now, issued, regs, deleted,
                   loggedOut, config>>

\* router.delete('/:id', protect, deleteTask)
DeleteTaskRoute(p, cookie, header, id) ==
    Route(p, [route |-> "deleteTask", cookie |-> cookie, header |-> header,
              id |-> id])

\* deleteTask up to the answer of `await Task.findOne`.
DeleteTaskFind(p) ==
    /\ At(p, "deleteTask", {"authed"})
    /\ Controller(p)
    /\ LET r == inflight[p]
           found == FindTask(r.req.id, r.user.id)
       IN IF found = {}
          THEN /\ resp' = TaskNotFound("deleteTask", r.req.id)
               /\ inflight' = [inflight EXCEPT ![p] = IdleTask]
          ELSE /\ resp' = Idle
               /\ inflight' = [inflight EXCEPT ![p].pc = "found",
                                               ![p].task = CHOOSE t \in found : TRUE]
    /\ dbQuery' = NoQuery
    /\ UNCHANGED <<store, now, issued, regs, deleted, loggedOut, config>>

\* The rest of deleteTask: the DELETE of task.destroy() and the answer.  A
\* DELETE that finds no row left reports nothing.
DeleteTaskDestroy(p) ==
    /\ At(p, "deleteTask", {"found"})
    /\ Controller(p)
    /\ tasks' = DestroyRow(tasks, inflight[p].task)
    /\ deleted' = deleted \cup {inflight[p].task.id}
    /\ resp' = [status |-> 200, cookie |-> NoSetCookie,
                body |-> [success |-> TRUE,
                          message |-> "Task deleted successfully"]]
    /\ inflight' = [inflight EXCEPT ![p] = IdleTask]
    /\ dbQuery' = NoQuery
    /\ UNCHANGED <<users, userSeq, taskSeq, now, issued, regs, loggedOut, config>>

(***************************************************************************)
(* Request inputs.                                                         *)
(***************************************************************************)
NameJo == <<"J", "o">>
NameJ == <<"J">>

EmailA == <<"a", "@", "x", ".", "i", "o">>
EmailAUpper == <<"A", "@", "x", ".", "i", "o">>
EmailAPadded == <<" ">> \o EmailA \o <<" ">>
EmailB == <<"b", "@", "x", ".", "i", "o">>
EmailBad == <<"a", "x">>

PwSecret == <<"s", "e", "c", "r", "e", "t">>
PwOther == <<"s", "e", "c", "r", "e", "T">>
PwShort == <<"a", "b", "c">>
\* Two passwords that differ only after their first 72 bytes.
PwLongA == Repeat("x", BcryptMaxBytes) \o <<"a">>
PwLongB == Repeat("x", BcryptMaxBytes) \o <<"b">>

Passwords == {PwSecret, PwOther, PwShort, PwLongA, PwLongB, <<>>}

RegisterBodies ==
    [name : {NameJo}, email : {EmailA, EmailAUpper, EmailAPadded, EmailB},
     password : {PwSecret, PwLongA}]
    \cup {[name |-> NameJ, email |-> EmailA, password |-> PwSecret],
          [name |-> NameJo, email |-> EmailBad, password |-> PwSecret],
          [name |-> NameJo, email |-> EmailB, password |-> PwShort]}

LoginBodies ==
    [email : {EmailA}, password : {PwSecret, PwOther, PwLongA, PwLongB, <<>>}]
    \cup [email : {EmailAUpper, EmailB, EmailBad}, password : {PwSecret}]

(***************************************************************************)
(* The Credential Store under concurrent registration and login.           *)
(***************************************************************************)
NextReg ==
    \/ \E p \in Procs, body \in RegisterBodies : RegisterCheck(p, body)
    \/ \E p \in Procs, salt \in Salts : RegisterCreate(p, salt)
    \/ \E body \in LoginBodies : Login(1, body)
    \/ LoginCompare(1)
    \/ \E u \in users : AdminDeleteUser(u)

SpecReg == InitUtc /\ [][NextReg]_vars

\* C6: two registrations for one normalized email that were in flight together
\* end with one 201 and one 400.
C6_RaceOneCreatedOneDuplicate ==
    \A p, q \in Procs :
        (/\ p # q
         /\ regs[p].pc = "done" /\ regs[q].pc = "done"
         /\ regs[p].conc /\ regs[q].conc
         /\ regs[p].email = regs[q].email)
        => {regs[p].status, regs[q].status} = {201, 400}

\* C7: no two rows of `users` have the same email.
C7_EmailUnique ==
    \A u, w \in users : u.email = w.email => u = w

\* The UNIQUE constraint has turned a row away while a row with that email is stored.
C7_Witness ==
    \E p \in Procs :
        /\ regs[p].pc = "done" /\ regs[p].status = 500
        /\ \E u \in users : u.email = regs[p].email

\* C10: after a valid registration the stored password differs from the
\* plaintext, the plaintext verifies, and no other string does.
C10_HashVerifiesOnlyPlaintext ==
    (req.route = "register" /\ resp.status = 201) =>
        \A u \in users :
            u.id = resp.body.user.id =>
                /\ u.password # req.body.password
                /\ ComparePassword(u, req.body.password)
                /\ \A other \in Passwords \ {req.body.password} :
                       ~ComparePassword(u, other)

\* The password a stored user registered with, among those registrations carry.
RegisteredPassword(u) ==
    CHOOSE pw \in {b.password : b \in RegisterBodies} : ComparePassword(u, pw)

\* The step answers a login that passed validation: one whose email no user
\* has when findOne looks for it, or one whose password, when it has been
\* compared, is not the one the user found registered with.
BadLogin ==
    /\ req'.route = "login"
    /\ handled'
    /\ \/ /\ \A p \in Procs : ~Stepped(p)
          /\ FindUserByEmail(LoginValidation(req'.body).body.email) = {}
       \/ \E p \in Procs :
             /\ At(p, "login", {"found"})
             /\ Stepped(p)
             /\ RegisteredPassword(inflight[p].user) # req'.body.password

\* C19: a login for an unknown email and a login with a wrong password get the
\* same 401 answer, without token or cookie, and change no user.
C19_BadLoginRejected ==
    [][BadLogin =>
          /\ resp' = Fail(401, "Invalid credentials. Please check your email and password.")
          /\ issued' = issued
          /\ users' = users]_vars

\* The step is the arrival of a registration whose email, trimmed and
\* lower-cased, is the email of a user stored at that moment.
DuplicateRegistration ==
    /\ req'.route = "register"
    /\ regs[req'.proc].pc # "checked"
    /\ \E u \in users : u.email = ToLower(Trim(req'.body.email))

\* C20: a registration for the email of a stored user is answered 400, is not
\* taken any further, and leaves users, tokens and cookies as they were.
C20_DuplicateEmailRejected ==
    [][DuplicateRegistration =>
          /\ resp'.status = 400
          /\ resp'.cookie = NoSetCookie
          /\ "token" \notin DOMAIN resp'.body
          /\ regs'[req'.proc].pc # "checked"
          /\ users' = users
          /\ userSeq' = userSeq
          /\ issued' = issued]_vars

\* A registration for 'A@x.io' or ' a@x.io ' was turned away because a@x.io
\* is registered.
C20_Witness ==
    /\ req.route = "register"
    /\ req.body.email \in {EmailAUpper, EmailAPadded}
    /\ resp = Fail(400, "Email already registered. Please login instead.")
    /\ \E u \in users : u.email = EmailA

(***************************************************************************)
(* The Auth Gate, with every cookie and header, in front of the auth       *)
(* routes.                                                                 *)
(***************************************************************************)
\* Tokens signed with a key that is not the server's.
Forged == {Jwt(id, now, now + JwtExpireDays, "attacker key") : id \in 1..Min(userSeq, 1)}

Tokens == issued \cup Forged

Cookies == {Absent, Raw(""), Raw("none")} \cup Tokens

Headers ==
    {NoHeader, Header(Bearer, Absent)}
    \cup {Header(Bearer, t) : t \in Tokens}
    \cup {Header(scheme, t) : scheme \in {Basic, BearerX, BearerLower},
                              t \in {i \in issued : i.id = 1 /\ i.iat = 0}}

\* A request that carries at most one token, in the Authorization header.
BearerOnly == {NoHeader} \cup {Header(Bearer, t) : t \in issued}

AuthRegisterBodies ==
    [name : {NameJo}, email : {EmailA, EmailB}, password : {PwSecret}]

AuthLoginBodies == [email : {EmailA}, password : {PwSecret, PwOther}]

TaskBodyT ==
    [title |-> <<"T">>, description |-> Undefined, priority |-> "high",
     endDate |-> "2025-12-31"]

\* The same task, renamed.
TaskBodyU ==
    [title |-> <<"U">>, description |-> Undefined, priority |-> "high",
     endDate |-> "2025-12-31"]

DefaultQuery ==
    [page |-> Missing, limit |-> Missing, sortBy |-> Missing, order |-> Missing]

NextAuth ==
    \/ \E body \in AuthRegisterBodies : RegisterCheck(1, body)
    \/ RegisterCreate(1, "$2b$10$salt1")
    \/ \E body \in AuthLoginBodies : Login(1, body)
    \/ LoginCompare(1)
    \/ Tick
    \/ \E u \in users : AdminDeleteUser(u)
    \/ \E c \in Cookies, h \in Headers : GetMeRoute(1, c, h)
    \/ GetMe(1)
    \/ \E h \in BearerOnly : Logout(1, Absent, h)
    \/ Gate(1)

SpecAuth == InitUtc /\ [][NextAuth]_vars

ProtectedRoutes ==
    {"getMe", "logout", "createTask", "getTasks", "getTask", "updateTask",
     "deleteTask"}

\* The token is well-formed, signed with the server's key and not expired.
GoodToken(t) == t.kind = "jwt" /\ t.sig = JwtSecret /\ now < t.exp

\* The stored user a token is bound to.
BoundUser(t) == {u \in users : u.id = t.id}

\* The identity of a stored user: its id, name, email and creation time.
IdentityOf(u) == reqUser.id = u.id /\ reqUser.name = u.name /\ reqUser.email = u.email

Protected == req.route \in ProtectedRoutes

\* The request has been answered.
Answered == resp.status # 0

\* The last step was one of `protect` for a request to a protected route, or
\* the answer of logout, which comes in the step of protect's lookup.
GateStep == Protected /\ (~handled \/ req.route = "logout")

\* The step is the arrival of a request for a protected route: protect takes
\* its token and verifies it.
Arrival == req'.route \in ProtectedRoutes /\ \A p \in Procs : ~Stepped(p)

\* The request of the step waits for the lookup of protect.
Pending == \E p \in Procs : /\ inflight[p].pc = "idle"
                            /\ inflight'[p].pc = "verified"
                            /\ inflight'[p].req = req'

\* The step is the answer of the lookup of protect for the request of process
\* p, with what follows it.
LookedUp(p) == inflight[p].pc = "verified" /\ Stepped(p)

\* The gate has answered 401 and the request has gone no further.
TurnedAway ==
    /\ resp'.status = 401
    /\ "errors" \notin DOMAIN resp'.body
    /\ ~nextCalled'
    /\ ~handled'
    /\ reqUser' = NoUser
    /\ \A p \in Procs : inflight'[p].pc \in {"idle", inflight[p].pc}
    /\ store' = store

\* A user that is not stored is not stored after the step either: ids are
\* never handed out twice.
GoneStaysGone ==
    \A t \in issued : BoundUser(t) = {} => {u \in users' : u.id = t.id} = {}

\* C4: when a request arrives, the gate turns it away with 401 unless the
\* token it takes is well-formed, signed by the server and not expired at that
\* moment; the lookup is made only for such a token, and when it answers, the
\* gate calls next() exactly when a stored user has the id of the token, and
\* then req.user is that user; otherwise 401, no identity, no next().  A
\* controller runs only after next().
C4_GateFailsClosed ==
    [][/\ Arrival =>
             /\ ~nextCalled' /\ ~handled' /\ reqUser' = NoUser
             /\ IF GoodToken(ProtectToken(req'.cookie, req'.header))
                THEN resp' = Idle /\ Pending
                ELSE TurnedAway /\ inflight' = inflight
       /\ \A p \in Procs :
             LookedUp(p) =>
                LET token == ProtectToken(req'.cookie, req'.header)
                IN /\ token.kind = "jwt" /\ token.sig = JwtSecret
                   /\ inflight[p].at < token.exp
                   /\ nextCalled' <=> BoundUser(token) # {}
                   /\ nextCalled' => \E u \in BoundUser(token) : IdentityOf(u)'
                   /\ ~nextCalled' => TurnedAway /\ inflight'[p] = IdleTask
       /\ (Protected' /\ handled') =>
             /\ nextCalled'
             /\ reqUser'.id = ProtectToken(req'.cookie, req'.header).id]_vars

\* A good token was let through for a user who also holds an expired one.
C4_Witness ==
    /\ GateStep
    /\ nextCalled
    /\ reqUser.id = ProtectToken(req.cookie, req.header).id
    /\ \E t \in issued : t.id = reqUser.id /\ now >= t.exp

\* C5: a token issued for a user who is no longer stored gets 401 on every
\* protected route and resolves to no identity: the lookup finds no user, at
\* whatever moment after the deletion it is made.
C5_DeletedUserTokenRejected ==
    [][/\ Arrival => (~nextCalled' /\ reqUser' = NoUser)
       /\ GoneStaysGone
       /\ \A p \in Procs :
             LookedUp(p) =>
                LET token == ProtectToken(req'.cookie, req'.header)
                IN (token \in issued /\ BoundUser(token) = {}) =>
                      /\ TurnedAway
                      /\ inflight'[p] = IdleTask]_vars

\* An unexpired token of a deleted user was presented in the cookie on a task
\* route.
C5_Witness ==
    /\ req.route = "getTasks"
    /\ req.cookie \in issued
    /\ now < req.cookie.exp
    /\ BoundUser(req.cookie) = {}
    /\ resp = Fail(401, "User not found. Token is invalid.")

\* What the gate does with the token it has selected: on arrival, and when the
\* lookup answers.
GateActsOn(token) ==
    /\ Arrival =>
          /\ ~nextCalled'
          /\ ~Truthy(token) =>
                resp' = Fail(401, "Not authorized to access this route. Please login.")
          /\ IF GoodToken(token) THEN resp' = Idle /\ Pending
             ELSE TurnedAway /\ inflight' = inflight
    /\ \A p \in Procs :
          LookedUp(p) =>
             /\ nextCalled' <=> BoundUser(token) # {}
             /\ nextCalled' => reqUser'.id = token.id

\* C8 as claimed: the cookie is the token whenever the request has one, and
\* otherwise the word after 'Bearer' is.
C8_CookieWheneverPresent ==
    [][GateActsOn(IF req'.cookie.kind # "absent" THEN req'.cookie
                  ELSE IF req'.header.scheme = Bearer THEN req'.header.cred
                  ELSE Absent)]_vars

\* C8: the cookie is the token when it is present and not empty; otherwise the
\* second word of a header that begins with the characters 'Bearer' is; with
\* neither, 401 "Please login" and no next().
C8_CookieWhenNonEmpty ==
    [][GateActsOn(IF req'.cookie.kind = "jwt"
                     \/ (req'.cookie.kind = "raw" /\ req'.cookie.text # "")
                  THEN req'.cookie
                  ELSE IF StartsWith(req'.header.scheme, Bearer)
                  THEN req'.header.cred
                  ELSE Absent)]_vars

\* Cookie and header carried good tokens of two users: the cookie's user won.
C8_Witness ==
    /\ GateStep
    /\ nextCalled
    /\ req.cookie.kind = "jwt"
    /\ req.header.scheme = Bearer /\ GoodToken(req.header.cred)
    /\ BoundUser(req.header.cred) # {}
    /\ req.header.cred.id # req.cookie.id
    /\ reqUser.id = req.cookie.id

\* The token is one the gate lets through: good, and bound to a stored user.
Accepted(t) == GoodToken(t) /\ BoundUser(t) # {}

\* The request of the last step has a valid token in its Bearer header and,
\* in its cookie, something that is no valid token.
BadCookieGoodHeader ==
    /\ Protected
    /\ req.cookie.kind # "absent"
    /\ ~Accepted(req.cookie)
    /\ req.header.scheme = Bearer
    /\ Accepted(req.header.cred)

\* A request that arrives with such a cookie is answered 401 at once, or, when
\* the cookie is a good token of a user who is not stored, by the lookup.
BadCookieTurnedAway(cookie) ==
    /\ Arrival =>
          /\ ~nextCalled' /\ ~handled' /\ reqUser' = NoUser
          /\ \/ TurnedAway /\ inflight' = inflight
             \/ GoodToken(cookie) /\ BoundUser(cookie) = {} /\ Pending
    /\ \A p \in Procs :
          (LookedUp(p) /\ BoundUser(cookie) = {}) =>
              TurnedAway /\ inflight'[p] = IdleTask

\* C27 as claimed: with a token cookie that is no valid token the request is
\* answered 401, whatever the header holds.
C27_BadCookieRejected ==
    [][BadCookieGoodHeader' => BadCookieTurnedAway(req'.cookie)]_vars

\* C27: with a non-empty token cookie that is no valid token (a string that is
\* no JWT, a JWT that is forged or expired, or one of a user who is not
\* stored) the request is answered 401 and goes no further, whatever the
\* header holds.
C27_NonEmptyBadCookieRejected ==
    [][/\ GoneStaysGone
       /\ (/\ BadCookieGoodHeader'
           /\ req'.cookie.kind = "jwt"
              \/ (req'.cookie.kind = "raw" /\ req'.cookie.text # ""))
          => BadCookieTurnedAway(req'.cookie)]_vars

\* The cookie logout sets came with a valid Bearer token: 401.
C27_Witness ==
    /\ BadCookieGoodHeader
    /\ req.cookie = Raw("none")
    /\ resp = Fail(401, "Invalid token. Please login again.")

HasPassword(r) == "password" \in DOMAIN r

\* C9: neither req.user nor any response body carries a password field, and
\* validation errors carry only a field name and a message.
C9_NoPasswordLeaves ==
    /\ ~HasPassword(reqUser)
    /\ ~HasPassword(resp.body)
    /\ "user" \in DOMAIN resp.body => ~HasPassword(resp.body.user)
    /\ "task" \in DOMAIN resp.body => ~HasPassword(resp.body.task)
    /\ "errors" \in DOMAIN resp.body =>
          \A i \in DOMAIN resp.body.errors :
              DOMAIN resp.body.errors[i] = {"field", "message"}
    /\ HasPassword(resp.cookie.value) = FALSE

\* getMe answered 200 with the user the gate attached.
C9_Witness ==
    /\ req.route = "getMe"
    /\ resp.status = 200
    /\ reqUser.id = resp.body.user.id
    /\ \E u \in users : u.id = reqUser.id /\ u.password # <<>>

(***************************************************************************)
(* The task routes by id, used by two registered users, one request at a   *)
(* time, on a server in either time zone.                                  *)
(***************************************************************************)
BearerIssued == {Header(Bearer, t) : t \in issued}

CreateBodies ==
    {[title |-> <<" ", "T">>, description |-> Undefined, priority |-> "high",
      endDate |-> "2025-12-31"],
     [title |-> <<"T">>, description |-> <<"d">>, priority |-> "low",
      endDate |-> "2025-12-31"],
     [title |-> <<" ">>, description |-> Undefined, priority |-> "urgent",
      endDate |-> "31/12/2025"]}

UpdateBodies ==
    {[title |-> <<"U">>, description |-> Undefined, priority |-> "medium",
      endDate |-> "2025-01-01"],
     [title |-> Undefined, description |-> <<"e">>, priority |-> Missing,
      endDate |-> Missing],
     [title |-> <<"U">>, description |-> Undefined, priority |-> "urgent",
      endDate |-> "2025-01-01"]}

\* The ids in use and the next one, which no task has.
TaskIds == 1..(taskSeq + 1)

NextTasks ==
    \/ \E body \in AuthRegisterBodies : RegisterCheck(1, body)
    \/ RegisterCreate(1, "$2b$10$salt1")
    \/ Gate(1)
    \/ \E h \in BearerIssued, body \in CreateBodies :
          CreateTaskRoute(1, Absent, h, body)
    \/ CreateTask(1)
    \/ \E h \in BearerIssued, id \in TaskIds : GetTaskRoute(1, Absent, h, id)
    \/ GetTask(1)
    \/ \E h \in BearerIssued, id \in TaskIds, body \in UpdateBodies :
          UpdateTaskRoute(1, Absent, h, id, body)
    \/ UpdateTaskFind(1)
    \/ UpdateTaskSave(1)
    \/ \E h \in BearerIssued, id \in TaskIds : DeleteTaskRoute(1, Absent, h, id)
    \/ DeleteTaskFind(1)
    \/ DeleteTaskDestroy(1)

SpecTasks == InitDefault /\ [][NextTasks]_vars

ById == {"getTask", "updateTask", "deleteTask"}


\* The request of the last step named a task that exists and belongs to a
\* user other than the authenticated one.
OnForeignTask ==
    /\ req.route \in ById
    /\ nextCalled
    /\ \E t \in tasks : t.id = req.id /\ t.userId # reqUser.id

\* C2 as claimed: a request by id from a user who does not own the task gets
\* 404 and changes no task.
C2_NonOwner404Unchanged ==
    [][OnForeignTask' =>
          /\ tasks' = tasks
          /\ Answered' => resp'.status = 404]_vars

\* C2: no step of such a request changes a task, and its answer is 404, or 400
\* when it is a PUT whose body fails validation.
C2_NonOwnerUnchanged ==
    [][OnForeignTask' =>
          /\ tasks' = tasks
          /\ Answered' =>
                resp'.status =
                   IF /\ req'.route = "updateTask"
                      /\ TaskValidation(req'.body).errors # <<>>
                   THEN 400 ELSE 404]_vars

\* A valid PUT on another user's task was answered 404 by updateTask.
C2_Witness ==
    /\ OnForeignTask
    /\ req.route = "updateTask"
    /\ TaskValidation(req.body).errors = <<>>
    /\ handled
    /\ resp.status = 404

\* What each route answers the same user for the id next in sequence, which
\* no task has.
AnswerForMissing ==
    LET missing == taskSeq + 1
    IN IF req.route = "updateTask" /\ TaskValidation(req.body).errors # <<>>
       THEN ValidationFailed(TaskValidation(req.body).errors)
       ELSE TaskNotFound(req.route, missing)

\* C3: the answer for another user's task is the answer for a missing id.
C3_ForeignLikeMissing ==
    (OnForeignTask /\ Answered) => resp = AnswerForMissing

\* A DELETE of another user's task was answered by deleteTask.
C3_Witness ==
    /\ OnForeignTask
    /\ req.route = "deleteTask"
    /\ handled
    /\ resp.status = 404

\* The request of the last step was a PUT by the owner of task t that supplied
\* a description and no title, priority or endDate.
DescriptionOnlyPut(t) ==
    /\ req.route = "updateTask"
    /\ nextCalled
    /\ req.id = t.id /\ reqUser.id = t.userId
    /\ req.body.title = Undefined
    /\ req.body.description # Undefined
    /\ req.body.priority = Missing
    /\ req.body.endDate = Missing

\* C12: a PUT by the owner that supplies only a description is not turned
\* away, and once answered it is answered 200, the task has that description,
\* its title, priority and endDate as before, and its updated timestamp has
\* not moved back.
C12_DescriptionOnlyUpdate ==
    [][\A t \in tasks :
          (DescriptionOnlyPut(t)' /\ Answered') =>
              /\ resp'.status = 200
              /\ \E u \in tasks' :
                    /\ u.id = t.id
                    /\ u.title = t.title
                    /\ u.priority = t.priority
                    /\ u.endDate = t.endDate
                    /\ u.description = req'.body.description
                    /\ u.updatedAt >= t.updatedAt]_vars

\* The step answers the GET of process p for a task that is still there, sent
\* by its creator right after the creation, from a body whose title has no
\* blanks around it, had returned the id.
FetchAfterCreate(p) ==
    /\ At(p, "getTask", {"authed"})
    /\ Stepped(p)
    /\ inflight[p].made # NoRequest
    /\ Trim(inflight[p].made.body.title) = inflight[p].made.body.title
    /\ \E t \in tasks : t.id = inflight[p].req.id

\* C17: a task fetched by its creator right after its creation has the title,
\* priority and endDate of the creation request, the id the creation returned
\* and the timestamps of its creation.
C17_RoundTrip ==
    [][\A p \in Procs :
          FetchAfterCreate(p) =>
              /\ resp'.status = 200
              /\ resp'.body.task.title = inflight[p].made.body.title
              /\ resp'.body.task.priority = inflight[p].made.body.priority
              /\ resp'.body.task.endDate = inflight[p].made.body.endDate
              /\ resp'.body.task.id = inflight[p].req.id
              /\ resp'.body.task.createdAt <= now
              /\ resp'.body.task.updatedAt = resp'.body.task.createdAt]_vars

\* The step answers a request by id for a task that a DELETE had answered 200
\* for before it: at the gate, or on the answer of the controller's findOne.
OnDeletedTask ==
    /\ req'.route \in ById
    /\ nextCalled'
    /\ req'.id \in deleted
    /\ Answered'
    /\ \/ ~handled'
       \/ \E p \in Procs : Stepped(p) /\ inflight[p].pc = "authed"

\* C18 as claimed: once a DELETE has answered 200, every later GET, PUT or
\* DELETE for that id gets 404.
C18_DeletedIs404 ==
    [][OnDeletedTask => resp'.status = 404]_vars

\* C18: once a DELETE has answered 200 no row has that id again, and every
\* later GET, PUT or DELETE for it gets 404, or 400 when it is a PUT whose body
\* fails validation.
C18_DeletedStaysGone ==
    [][/\ \A t \in tasks' : t.id \notin deleted'
       /\ OnDeletedTask =>
             resp'.status =
                IF req'.route = "updateTask" /\ TaskValidation(req'.body).errors # <<>>
                THEN 400 ELSE 404]_vars

\* The owner's valid PUT for a task deleted earlier was answered 404 by
\* updateTask.
C18_Witness ==
    /\ req.route = "updateTask"
    /\ handled
    /\ req.id \in deleted
    /\ TaskValidation(req.body).errors = <<>>
    /\ resp.status = 404
    /\ \E t \in tasks : t.userId = reqUser.id

(***************************************************************************)
(* The task listing: one user, tasks of every priority, every query.       *)
(***************************************************************************)
ListRegisterBody == [name |-> NameJo, email |-> EmailA, password |-> PwSecret]

ListBodies ==
    [title : {<<"T">>}, description : {Undefined}, priority : Priorities,
     endDate : RequestDates]

ListQueries ==
    [page : {Missing, "2", "3"}, limit : {Missing, "1", "2"},
     sortBy : {Missing, "priority"}, order : {Missing, "asc", "desc"}]
    \cup {[page |-> "1", limit |-> "100", sortBy |-> "end_date", order |-> "asc"],
          [page |-> "1", limit |-> "1", sortBy |-> "created_at", order |-> "desc"]}
    \cup [page : {"0", "-1"}, limit : {Missing}, sortBy : {Missing}, order : {Missing}]
    \cup [page : {Missing}, limit : {"0", "101", "-1"}, sortBy : {Missing},
          order : {Missing}]
    \cup [page : {Missing}, limit : {Missing}, sortBy : {"title", ""},
          order : {Missing}]
    \cup {[page |-> Missing, limit |-> Missing, sortBy |-> Missing, order |-> "up"]}

NextList ==
    \/ RegisterCheck(1, ListRegisterBody)
    \/ RegisterCreate(1, "$2b$10$salt1")
    \/ Gate(1)
    \/ \E h \in BearerIssued, body \in ListBodies :
          CreateTaskRoute(1, Absent, h, body)
    \/ CreateTask(1)
    \/ \E h \in BearerIssued, q \in ListQueries : GetTasksRoute(1, Absent, h, q)
    \/ GetTasksCount(1)
    \/ GetTasksRows(1)

SpecList == InitDefault /\ [][NextList]_vars

\* A listing was answered 200.
Listing == req.route = "getTasks" /\ resp.status = 200

\* The priorities of the page, in the order of the response.
PagePriorities == [i \in DOMAIN resp.body.tasks |-> resp.body.tasks[i].priority]

\* The pairs <<p, q>> with p more urgent than q.
MoreUrgent == {<<"high", "medium">>, <<"high", "low">>, <<"medium", "low">>}

\* C11: with sortBy=priority, order=asc lists every high task before every
\* medium task before every low task, and order=desc lists them the other
\* way round, whatever order the tasks were inserted in.
C11_PrioritySort ==
    (Listing /\ req.query.sortBy = "priority" /\ req.query.order \in Orders) =>
        \A i, j \in DOMAIN PagePriorities :
            i < j =>
                IF req.query.order = "asc"
                THEN <<PagePriorities[j], PagePriorities[i]>> \notin MoreUrgent
                ELSE <<PagePriorities[i], PagePriorities[j]>> \notin MoreUrgent

\* An ascending priority listing put a medium task, inserted last, before a
\* low one.
C11_Witness ==
    /\ Listing
    /\ req.query.sortBy = "priority" /\ req.query.order = "asc"
    /\ Len(resp.body.tasks) = 2
    /\ resp.body.tasks[1].priority = "medium"
    /\ resp.body.tasks[2].priority = "low"
    /\ resp.body.tasks[1].id > resp.body.tasks[2].id

\* The numeral s is an integer below lo; an integer above hi.
Below(s, lo) == s \in DOMAIN IntOf /\ IntOf[s] < lo
Above(s, hi) == s \in DOMAIN IntOf /\ IntOf[s] > hi

\* C13: a listing request that passed the gate with a limit below 1 or above
\* 100, or a page below 1, is answered 400 by validation; getTasks does not run
\* and the answer lists no tasks.
C13_BadPagingRejected ==
    (/\ req.route = "getTasks"
     /\ nextCalled
     /\ \/ Below(req.query.limit, 1)
        \/ Above(req.query.limit, 100)
        \/ Below(req.query.page, 1)) =>
        /\ resp.status = 400
        /\ resp.body.message = "Validation failed"
        /\ "tasks" \notin DOMAIN resp.body
        /\ ~handled
        /\ dbQuery.table # "tasks"

\* A limit of 101 was turned away while the user had tasks to list.
C13_Witness ==
    /\ req.route = "getTasks"
    /\ nextCalled
    /\ req.query.limit = "101"
    /\ resp.status = 400
    /\ \E t \in tasks : t.userId = reqUser.id

\* The page a query string asks for: 1 when it names none.
PageAsked == IF req.query.page = Missing THEN 1 ELSE IntOf[req.query.page]

\* C14: the listing query runs with the limit asked for, 10 when none is, and
\* always one of 1..100; the page is the one asked for, 1 when none is; the
\* offset is (page - 1) * limit.
C14_PagingArguments ==
    dbQuery.table = "tasks" =>
        /\ dbQuery.limit \in 1..100
        /\ dbQuery.limit =
              IF req.query.limit = Missing THEN 10 ELSE IntOf[req.query.limit]
        /\ dbQuery.offset = (PageAsked - 1) * dbQuery.limit
        /\ Listing =>
              /\ resp.body.pagination.currentPage = PageAsked
              /\ resp.body.pagination.limit = dbQuery.limit

\* page=3 with no limit ran the query with limit 10 at offset 20, and was
\* answered.
C14_Witness ==
    /\ dbQuery # NoQuery
    /\ Listing
    /\ req.query.page = "3" /\ req.query.limit = Missing
    /\ dbQuery.limit = 10 /\ dbQuery.offset = 20
    /\ \E t \in tasks : t.userId = reqUser.id

\* The end dates and creation times of the page, in the order of the response.
PageEndDates == [i \in DOMAIN resp.body.tasks |-> DayOf[resp.body.tasks[i].endDate]]
PageCreated == [i \in DOMAIN resp.body.tasks |-> resp.body.tasks[i].createdAt]

Ascending(keys) == \A i, j \in DOMAIN keys : i < j => keys[i] <= keys[j]
Descending(keys) == \A i, j \in DOMAIN keys : i < j => keys[i] >= keys[j]

\* The page is in order of end date, in the direction the request asks for.
ByEndDate ==
    /\ Listing
    /\ dbQuery.column = "endDate"
    /\ IF req.query.order = "desc" THEN Descending(PageEndDates)
       ELSE Ascending(PageEndDates)

\* The page is in ascending order of what the request sorts by.
AscendingPage ==
    /\ Listing
    /\ dbQuery.order = "asc"
    /\ CASE req.query.sortBy = "priority" ->
               \A i, j \in DOMAIN PagePriorities :
                   i < j => <<PagePriorities[j], PagePriorities[i]>> \notin MoreUrgent
         [] req.query.sortBy = "created_at" -> Ascending(PageCreated)
         [] OTHER -> Ascending(PageEndDates)

\* C15 as claimed: a listing request whose sortBy is none of the three keys, or
\* is omitted, is answered with the tasks in order of end date; one without
\* order is answered in ascending order.
C15_UnknownSortFallsBack ==
    (/\ req.route = "getTasks"
     /\ nextCalled
     /\ Answered
     /\ PaginationErrors([req.query EXCEPT !.sortBy = Missing]) = <<>>) =>
        /\ req.query.sortBy \notin SortKeys => ByEndDate
        /\ (req.query.order = Missing /\ req.query.sortBy \in SortKeys \cup {Missing})
              => AscendingPage

\* C15: a listing request whose sortBy is given and none of the three keys is
\* answered 400 and runs no listing query; one without sortBy is answered in order of
\* end date, and one without order in ascending order.
C15_UnknownSortRejected ==
    (req.route = "getTasks" /\ nextCalled) =>
        /\ (req.query.sortBy # Missing /\ req.query.sortBy \notin SortKeys) =>
              /\ resp.status = 400
              /\ resp.body.message = "Validation failed"
              /\ dbQuery.table # "tasks"
        /\ (req.query.sortBy = Missing /\ resp.status = 200) => ByEndDate
        /\ (req.query.order = Missing /\ resp.status = 200) => AscendingPage

\* sortBy=title, with nothing else wrong in the query, was turned away while
\* the user had two tasks to list.
C15_Witness ==
    /\ req.route = "getTasks"
    /\ nextCalled
    /\ req.query.sortBy = "title"
    /\ PaginationErrors([req.query EXCEPT !.sortBy = Missing]) = <<>>
    /\ resp.status = 400
    /\ Cardinality({t \in tasks : t.userId = reqUser.id}) = 2

\* The ids of the tasks on the page just answered.
PageIds == {resp.body.tasks[i].id : i \in DOMAIN resp.body.tasks}

\* The step answers the listing of process p: the second of its two
\* statements has been answered.
ListAnswered(p) == At(p, "getTasks", {"counted", "selected"}) /\ Stepped(p)

\* The step answers the listing of page 2 that process p was sent right after
\* its client had been answered page 1 of two, for the same user with the same
\* limit, sortBy and order.
SecondPageAfterFirst(p) ==
    /\ ListAnswered(p)
    /\ inflight[p].after.page = 1
    /\ inflight[p].after.totalPages = 2

\* The tasks of the user of the request of process p.
TasksOfUser(p) == {t \in tasks : t.userId = inflight[p].user.id}

\* C25: the pages of a listing, read one after the other while the tasks stay
\* as they are, hold every task of the user exactly once.
C25_PagesPartitionTasks ==
    [][\A p \in Procs :
          SecondPageAfterFirst(p) =>
              /\ inflight[p].after.ids \cap PageIds' = {}
              /\ inflight[p].after.ids \cup PageIds' = {t.id : t \in TasksOfUser(p)}]_vars

\* The same, for listings in which no two tasks have the same sort key.
PagesPartitionWithoutTies ==
    [][\A p \in Procs :
          (/\ SecondPageAfterFirst(p)
           /\ \A t, u \in TasksOfUser(p) :
                 t # u => OrderKey(t, IF req'.query.sortBy = Missing THEN "end_date"
                                      ELSE req'.query.sortBy)
                          # OrderKey(u, IF req'.query.sortBy = Missing THEN "end_date"
                                        ELSE req'.query.sortBy)) =>
              /\ inflight[p].after.ids \cap PageIds' = {}
              /\ inflight[p].after.ids \cup PageIds' = {t.id : t \in TasksOfUser(p)}]_vars

(***************************************************************************)
(* The task listing of one client while another creates and deletes tasks, *)
(* for two registered users.                                               *)
(***************************************************************************)
ListRaceQueries ==
    {DefaultQuery,
     [page |-> "2", limit |-> "1", sortBy |-> Missing, order |-> Missing]}

\* The ids in use.
ListRaceIds == 1..taskSeq

NextListRace ==
    \/ \E body \in AuthRegisterBodies : RegisterCheck(1, body)
    \/ RegisterCreate(1, "$2b$10$salt1")
    \/ \E p \in Procs : Gate(p)
    \/ \E h \in BearerIssued : CreateTaskRoute(2, Absent, h, TaskBodyT)
    \/ CreateTask(2)
    \/ \E h \in BearerIssued, id \in ListRaceIds : DeleteTaskRoute(2, Absent, h, id)
    \/ DeleteTaskFind(2)
    \/ DeleteTaskDestroy(2)
    \/ \E h \in BearerIssued, q \in ListRaceQueries : GetTasksRoute(1, Absent, h, q)
    \/ GetTasksCount(1)
    \/ GetTasksRows(1)

SpecListRace == InitUtc /\ [][NextListRace]_vars

(***************************************************************************)
(* The task listing of two registered users, asked with every combination  *)
(* of page, limit, sort key and order, among creations, updates and        *)
(* deletions of tasks of both.                                             *)
(***************************************************************************)
\* Every combination of a page, a limit, a sort key and an order, each given
\* or left out.
OwnQueries ==
    [page : {Missing, "2"}, limit : {Missing, "1"},
     sortBy : {Missing} \cup SortKeys, order : {Missing} \cup Orders]

\* An update that moves a task created from TaskBodyT in every sort order.
OwnUpdate ==
    [title |-> <<"U">>, description |-> Undefined, priority |-> "low",
     endDate |-> "2025-01-01"]

NextListOwn ==
    \/ \E body \in AuthRegisterBodies : RegisterCheck(1, body)
    \/ RegisterCreate(1, "$2b$10$salt1")
    \/ Gate(1)
    \/ \E h \in BearerIssued : CreateTaskRoute(1, Absent, h, TaskBodyT)
    \/ CreateTask(1)
    \/ \E h \in BearerIssued, id \in 1..taskSeq :
          UpdateTaskRoute(1, Absent, h, id, OwnUpdate)
    \/ UpdateTaskFind(1)
    \/ UpdateTaskSave(1)
    \/ \E h \in BearerIssued, id \in 1..taskSeq : DeleteTaskRoute(1, Absent, h, id)
    \/ DeleteTaskFind(1)
    \/ DeleteTaskDestroy(1)
    \/ \E h \in BearerIssued, q \in OwnQueries : GetTasksRoute(1, Absent, h, q)
    \/ GetTasksCount(1)
    \/ GetTasksRows(1)

SpecListOwn == InitUtc /\ [][NextListOwn]_vars

\* C1: the rows a listing reads are tasks of the requesting user, the count it
\* reads is the number of that user's tasks, and its answer holds that count
\* and those rows, or no rows when the count is 0, whatever the query string
\* asks for and whatever tasks the users have created, updated and deleted.
C1_ListOnlyOwnTasks ==
    [][\A p \in Procs :
          (At(p, "getTasks", {"authed", "counted", "selected"}) /\ Stepped(p)) =>
              /\ inflight'[p].pc = "selected" =>
                    \A i \in DOMAIN inflight'[p].rows :
                        inflight'[p].rows[i] \in TasksOfUser(p)
              /\ inflight'[p].pc = "counted" =>
                    inflight'[p].count = Cardinality(TasksOfUser(p))
              /\ inflight[p].pc = "counted" =>
                    /\ resp'.body.pagination.totalTasks = inflight[p].count
                    /\ \A i \in DOMAIN resp'.body.tasks :
                          \E t \in TasksOfUser(p) : Listed(t) = resp'.body.tasks[i]
              /\ inflight[p].pc = "selected" =>
                    /\ resp'.body.pagination.totalTasks = Cardinality(TasksOfUser(p))
                    /\ resp'.body.tasks =
                          IF TasksOfUser(p) = {} THEN <<>>
                          ELSE [i \in DOMAIN inflight[p].rows |->
                                  Listed(inflight[p].rows[i])]]_vars

\* A user was listed a task of theirs, in an order asked for, while another
\* user had a task too, updated since its creation.
C1_Witness ==
    /\ Listing
    /\ req.query.sortBy # Missing /\ req.query.order # Missing
    /\ resp.body.count >= 1
    /\ \E t \in tasks : t.userId = reqUser.id /\ t.id \in PageIds
    /\ \E t \in tasks : t.userId # reqUser.id /\ t.priority = "low"

\* The limit a query string asks for: 10 when it names none.
LimitAsked == IF req.query.limit = Missing THEN 10 ELSE IntOf[req.query.limit]

\* The least k with k * d >= n.
CeilDiv(n, d) == CHOOSE k \in 0..n : k * d >= n /\ (k = 0 \/ (k - 1) * d < n)

\* The number of the user's tasks when the count of the listing of process p,
\* answered in this step, was taken.
Counted(p) ==
    IF inflight[p].pc = "counted" THEN inflight[p].count
    ELSE Cardinality(TasksOfUser(p))

\* C16: in a 200 listing, totalTasks is the number of the user's tasks, count is
\* the number of items returned, min(limit, max(0, totalTasks - (page-1)*limit)),
\* totalPages is ceil(totalTasks / limit), hasNext is page < totalPages and
\* hasPrev is page > 1.
C16_PaginationMetadata ==
    [][\A p \in Procs :
          ListAnswered(p) =>
              LET pg == resp'.body.pagination
                  total == Counted(p)
                  rest == total - (PageAsked' - 1) * LimitAsked'
              IN /\ resp'.status = 200
                 /\ pg.totalTasks = total
                 /\ resp'.body.count = Len(resp'.body.tasks)
                 /\ resp'.body.count = Min(LimitAsked', IF rest > 0 THEN rest ELSE 0)
                 /\ pg.totalPages = CeilDiv(total, LimitAsked')
                 /\ pg.hasNext = (PageAsked' < CeilDiv(total, LimitAsked'))
                 /\ pg.hasPrev = (PageAsked' > 1)]_vars

(***************************************************************************)
(* Sessions: one client that registers, logs in and out, and keeps using   *)
(* its tokens, on a server configured with either token lifetime.          *)
(***************************************************************************)
InitSession == Init /\ tz = 0 /\ migrated

SessionLoginBody == [email |-> EmailA, password |-> PwSecret]

\* The cookie a browser sends: none, the one logout has set, or a token.
SessionCookies == {Absent, Raw("none")} \cup issued

NextSession ==
    \/ RegisterCheck(1, ListRegisterBody)
    \/ RegisterCreate(1, "$2b$10$salt1")
    \/ Login(1, SessionLoginBody)
    \/ LoginCompare(1)
    \/ Tick
    \/ \E u \in users : AdminDeleteUser(u)
    \/ \E c \in SessionCookies, h \in BearerOnly : Logout(1, c, h)
    \/ ClientGate(1)
    \/ \E c \in SessionCookies, h \in BearerOnly : GetMeRoute(1, c, h)
    \/ GetMe(1)

SpecSession == InitSession /\ [][NextSession]_vars

\* The response sets the session cookie.
SetsSession == resp.cookie.name = "token" /\ resp.cookie.value.kind = "jwt"

\* C22: the session cookie set by register and login expires when the token
\* it carries expires, whatever JWT_EXPIRE is, and carries the token of the
\* JSON body.
C22_CookieExpiresWithToken ==
    SetsSession =>
        /\ resp.cookie.expires = resp.cookie.value.exp
        /\ resp.cookie.value = resp.body.token

\* C26: logout leaves both tables as they are, and a token a logout has been
\* answered 200 for goes on authenticating the requests that present it: it
\* is not turned away on arrival unless it has expired, the lookup attaches
\* its user unless the user is no longer stored, and getMe is answered 200.
C26_LogoutKeepsTokenValid ==
    [][/\ req'.route = "logout" => store' = store
       /\ LET token == ProtectToken(req'.cookie, req'.header)
          IN /\ (Arrival /\ token \in loggedOut /\ GoodToken(token)) =>
                    (resp' = Idle /\ Pending)
             /\ \A p \in Procs :
                   (/\ LookedUp(p) \/ (At(p, "getMe", {"authed"}) /\ Stepped(p))
                    /\ token \in loggedOut
                    /\ BoundUser(token) # {}) =>
                       /\ nextCalled'
                       /\ reqUser'.id = token.id
                       /\ resp'.status = IF handled' THEN 200 ELSE 0]_vars

\* After a logout with it, a token in the Authorization header of a request
\* without cookie was let through to getMe.
C26_Witness ==
    /\ req.route = "getMe"
    /\ req.cookie = Absent
    /\ req.header.cred \in loggedOut
    /\ nextCalled
    /\ resp.status = 200
    /\ resp.body.user.id = req.header.cred.id

(***************************************************************************)
(* Every protected route, asked with good and bad tokens, bodies and       *)
(* query strings.                                                          *)
(***************************************************************************)
\* A registration that passes registerValidation and one whose password is too
\* short.
GateRegisterBodies ==
    {ListRegisterBody, [ListRegisterBody EXCEPT !.password = PwShort]}

\* Logins with the password, with another one and with none.
GateLoginBodies ==
    AuthLoginBodies \cup {[email |-> EmailA, password |-> <<>>]}

GateHeaders == BearerOnly \cup {Header(Bearer, t) : t \in Forged}

\* A body that passes taskValidation and one that fails every rule of it.
GateBodies ==
    {TaskBodyT,
     [title |-> <<" ">>, description |-> Undefined, priority |-> "urgent",
      endDate |-> "31/12/2025"]}

\* The same, for the update of a task created from the first.
GateUpdateBodies ==
    {TaskBodyU,
     [title |-> <<" ">>, description |-> Undefined, priority |-> "urgent",
      endDate |-> "31/12/2025"]}

\* A query string that passes paginationValidation and one that does not.
GateQueries ==
    {DefaultQuery,
     [page |-> "0", limit |-> "101", sortBy |-> "title", order |-> "up"]}

\* What a request presents: a header with or without the cookie logout has
\* set, or a token in the cookie alone.
GateCredentials ==
    [cookie : {Absent, Raw("none")}, header : GateHeaders]
        \cup [cookie : issued, header : {NoHeader}]

NextGate ==
    \/ \E body \in GateRegisterBodies : RegisterCheck(1, body)
    \/ RegisterCreate(1, "$2b$10$salt1")
    \/ \E body \in GateLoginBodies : Login(1, body)
    \/ LoginCompare(1)
    \/ Tick
    \/ \E u \in users : AdminDeleteUser(u)
    \/ \E by \in GateCredentials : GetMeRoute(1, by.cookie, by.header)
    \/ GetMe(1)
    \/ \E by \in GateCredentials : Logout(1, by.cookie, by.header)
    \/ Gate(1)
    \/ \E by \in GateCredentials, body \in GateBodies :
          CreateTaskRoute(1, by.cookie, by.header, body)
    \/ CreateTask(1)
    \/ \E by \in GateCredentials, q \in GateQueries :
          GetTasksRoute(1, by.cookie, by.header, q)
    \/ GetTasksCount(1)
    \/ GetTasksRows(1)
    \/ \E by \in GateCredentials : GetTaskRoute(1, by.cookie, by.header, 1)
    \/ GetTask(1)
    \/ \E by \in GateCredentials, body \in GateUpdateBodies :
          UpdateTaskRoute(1, by.cookie, by.header, 1, body)
    \/ UpdateTaskFind(1)
    \/ UpdateTaskSave(1)
    \/ \E by \in GateCredentials : DeleteTaskRoute(1, by.cookie, by.header, 1)
    \/ DeleteTaskFind(1)
    \/ DeleteTaskDestroy(1)

SpecGate == InitUtc /\ [][NextGate]_vars

\* The gate has turned the request of the last step away.
Unauthenticated ==
    /\ Protected
    /\ resp.status = 401
    /\ ~nextCalled

\* The body or the query string of the request just answered breaks the rules
\* of its route.
InvalidInput ==
    \/ /\ req.route \in {"createTask", "updateTask"}
       /\ TaskValidation(req.body).errors # <<>>
    \/ /\ req.route = "getTasks"
       /\ PaginationErrors(req.query) # <<>>

\* C23: on every protected route a request without an accepted token is
\* answered 401 by the gate: no validation error is reported, the controller
\* does not run and both tables stay as they are.  A request whose token fails
\* on arrival is answered without any statement; one whose token is of a user
\* that is not stored, after the lookup of that user, which finds no row.
C23_GateBeforeValidation ==
    [][LET token == ProtectToken(req'.cookie, req'.header)
       IN /\ Arrival =>
                /\ dbQuery' = NoQuery
                /\ store' = store
                /\ "errors" \notin DOMAIN resp'.body
                /\ ~GoodToken(token) => TurnedAway /\ inflight' = inflight
          /\ \A p \in Procs :
                LookedUp(p) =>
                   /\ dbQuery' = UserQuery(token.id)
                   /\ store' = store
                   /\ BoundUser(token) = {} =>
                         TurnedAway /\ inflight'[p] = IdleTask]_vars

\* An expired token came with a body that breaks every rule, while the user
\* had a task: 401 for the token, nothing about the body.
C23_Witness ==
    /\ Unauthenticated
    /\ InvalidInput
    /\ req.route = "updateTask"
    /\ req.header.cred \in issued
    /\ resp = Fail(401, "Token has expired. Please login again.")
    /\ \E t \in tasks : t.id = req.id

(***************************************************************************)
(* Ownership: two users whose requests carry, besides the task's fields,   *)
(* fields the handlers do not read.                                        *)
(***************************************************************************)
\* A creation as it should be, and one that names an id and another owner.
OwnerCreateBodies ==
    {TaskBodyT,
     [title |-> <<"T">>, description |-> Undefined, priority |-> "high",
      endDate |-> "2025-12-31", id |-> 9, userId |-> 2]}

\* An update that names an id, an owner and a creation time.
OwnerUpdateBodies ==
    {[title |-> <<"U">>, description |-> Undefined, priority |-> "low",
      endDate |-> "2025-01-01", id |-> 9, userId |-> 2, createdAt |-> 5]}

NextOwner ==
    \/ \E body \in AuthRegisterBodies : RegisterCheck(1, body)
    \/ RegisterCreate(1, "$2b$10$salt1")
    \/ Login(1, SessionLoginBody)
    \/ LoginCompare(1)
    \/ Tick
    \/ Gate(1)
    \/ \E h \in BearerIssued, body \in OwnerCreateBodies :
          CreateTaskRoute(1, Absent, h, body)
    \/ CreateTask(1)
    \/ \E h \in BearerIssued, id \in 1..taskSeq, body \in OwnerUpdateBodies :
          UpdateTaskRoute(1, Absent, h, id, body)
    \/ UpdateTaskFind(1)
    \/ UpdateTaskSave(1)
    \/ \E h \in BearerIssued, id \in 1..taskSeq : DeleteTaskRoute(1, Absent, h, id)
    \/ DeleteTaskFind(1)
    \/ DeleteTaskDestroy(1)

\* A server in UTC with the default token lifetime, its tables made by the
\* migrations or by sequelize.sync().
InitOwner == Init /\ jwtExpire = JwtExpireDays /\ tz = 0

SpecOwner == InitOwner /\ [][NextOwner]_vars

\* Row t was inserted by the request just answered: a POST /tasks answered 201
\* for the user the gate found the token to be bound to.
CreatedNow(t) ==
    /\ req.route = "createTask"
    /\ resp.status = 201
    /\ t.id = resp.body.task.id
    /\ t.userId = reqUser.id
    /\ reqUser.id = ProtectToken(req.cookie, req.header).id
    /\ t.createdAt <= now

\* C24: a task comes into being with the authenticated user of its POST as
\* owner, whatever id or userId the body names, and from then on keeps its
\* id, its owner and its creation time under every request.
C24_OwnerAndCreationFixed ==
    [][/\ \A t \in tasks' :
             \/ \E old \in tasks : /\ old.id = t.id
                                   /\ old.userId = t.userId
                                   /\ old.createdAt = t.createdAt
             \/ CreatedNow(t)' /\ ~\E old \in tasks : old.id = t.id
       /\ \A t, u \in tasks' : t.id = u.id => t = u]_vars

\* A task created by user 1 from a body naming id 9 and owner 2 was later
\* updated by user 1 with a body naming them and a creation time: it still has
\* its id, owner 1 and creation time 0.
C24_Witness ==
    /\ req.route = "updateTask"
    /\ resp.status = 200
    /\ req.body.userId # reqUser.id
    /\ \E t \in tasks : /\ t.id = req.id /\ t.id # req.body.id
                        /\ t.userId = reqUser.id
                        /\ t.createdAt = 0 /\ t.updatedAt > t.createdAt
                        /\ t.title = <<"U">>
    /\ \E u \in users : u.id = req.body.userId

(***************************************************************************)
(* Requests on one task that run together: the owner's PUTs and DELETEs,   *)
(* each in two steps.                                                      *)
(***************************************************************************)
\* Updates of a task created from TaskBodyT: one that renames it, one that
\* lowers its priority, one that changes title, priority and end date.
RaceUpdateBodies ==
    {[title |-> <<"U">>, description |-> Undefined, priority |-> "high",
      endDate |-> "2025-12-31"],
     [title |-> <<"T">>, description |-> Undefined, priority |-> "low",
      endDate |-> "2025-12-31"],
     [title |-> <<"V">>, description |-> Undefined, priority |-> "medium",
      endDate |-> "2025-01-01"]}

\* The requests that run together are all for the first task created.
RaceIds == 1..Min(taskSeq, 1)

NextRace ==
    \/ RegisterCheck(1, ListRegisterBody)
    \/ RegisterCreate(1, "$2b$10$salt1")
    \/ \E p \in Procs : Gate(p)
    \/ \E h \in BearerIssued : CreateTaskRoute(1, Absent, h, TaskBodyT)
    \/ CreateTask(1)
    \/ \E p \in Procs, h \in BearerIssued, id \in RaceIds,
          body \in RaceUpdateBodies : UpdateTaskRoute(p, Absent, h, id, body)
    \/ \E p \in Procs : UpdateTaskFind(p)
    \/ \E p \in Procs : UpdateTaskSave(p)
    \/ \E p \in Procs, h \in BearerIssued, id \in RaceIds :
          DeleteTaskRoute(p, Absent, h, id)
    \/ \E p \in Procs : DeleteTaskFind(p)
    \/ \E p \in Procs : DeleteTaskDestroy(p)

SpecRace == InitUtc /\ [][NextRace]_vars

\* The step is the save of the PUT of process p.
Saving(p) ==
    /\ inflight[p].pc = "found"
    /\ inflight[p].req.route = "updateTask"
    /\ inflight'[p] = IdleTask
    /\ req' = inflight[p].req

\* C21: a PUT that has read the task is answered 200 when it saves, and when
\* another PUT of the task has saved in between, the stored title, priority
\* and end date after its own save are those of its body.
C21_LastWriteWins ==
    [][\A p \in Procs :
          Saving(p) =>
              /\ resp'.status = 200
              /\ inflight[p].overtaken =>
                    \A t \in tasks' :
                        t.id = req'.id =>
                            /\ t.title = Trim(req'.body.title)
                            /\ t.priority = req'.body.priority
                            /\ t.endDate = req'.body.endDate]_vars

\* The same, for the attributes whose value in the body differs from the
\* value the request has read.
LastWriteWinsOnChanged ==
    [][\A p \in Procs :
          (Saving(p) /\ inflight[p].overtaken) =>
              \A t \in tasks' :
                  t.id = req'.id =>
                      \A f \in inflight[p].changed \ {"updatedAt"} :
                          t[f] = inflight[p].task[f]]_vars

\* C28: no row has the id of a task that a DELETE has answered 200 for, also
\* when a PUT that had read the task saves afterwards.
C28_SaveNeverRecreates ==
    \A id \in deleted : ~\E t \in tasks : t.id = id

\* A PUT that read the task before its DELETE has saved after it and was
\* answered 200 with the task, which is not stored.
C28_Witness ==
    /\ req.route = "updateTask"
    /\ resp.status = 200
    /\ resp.body.task.id = req.id
    /\ req.id \in deleted
    /\ ~\E t \in tasks : t.id = req.id

(***************************************************************************)
(* The whole service.                                                      *)
(***************************************************************************)
Next ==
    NextReg \/ NextAuth \/ NextTasks \/ NextList \/ NextListRace \/ NextListOwn
    \/ NextSession
    \/ NextGate \/ NextOwner \/ NextRace

Spec == Init /\ [][Next]_vars

====
